---- MODULE Spec2Model ----
(***************************************************************************)
(* A model of the story-knowledge RAG tools: the retrieval pipeline of     *)
(* tools/rag_base.py (BaseRAGSystem) and tools/story_rag_system.py         *)
(* (StoryRAGSystem), the two segmenters, the chunk id and the result       *)
(* de-duplication.                                                         *)
(*                                                                         *)
(* Conventions                                                             *)
(*   - Scores and distances are integers in tenths: 5 stands for 0.5.      *)
(*   - A raised exception is the outcome [kind |-> "raised"]; a normal     *)
(*     return is [kind |-> "returned", results |-> <<...>>].               *)
(*   - The embedding service, the rerank service and the vector store are  *)
(*     external: their replies are inputs of the actions.                  *)
(***************************************************************************)
EXTENDS Integers, Sequences, FiniteSets, Bags, TLC

VARIABLES
    config,              \* RAGConfig values read by the search path
    _query_embed_cache,  \* BaseRAGSystem._query_embed_cache, insertion order
    call,                \* the last search call: its arguments and the collaborators' replies
    outcome,             \* what that call gave its caller
    content,             \* the document handed to a segmenter
    chunks,              \* the chunks the segmenter returned
    segmenter,           \* which segmenter produced chunks ("none" before)
    id_args,             \* the argument triples of two _generate_chunk_id calls
    ids,                 \* the ids those two calls returned
    dedup_in,            \* the list handed to _deduplicate_results
    dedup_out,           \* the list it returned
    character_call,      \* the search_character call: its arguments and what the sub-searches reply
    character_out,       \* what search_character returned and the searches it issued
    format_in,           \* the results handed to format_search_results
    format_out,          \* the formatted records, and the results list as the call left it
    embed_call,          \* the texts handed to get_embeddings_batch, the batch size, the workers, the positions whose embedding call raises
    embed_run,           \* the progress of that call in OllamaModelInterface ("base") and in StoryRAGSystem ("story")
    shared_cache,        \* the _query_embed_cache attribute of an instance that several threads search at once
    searchers,           \* the threads inside _search_vector
    index_call,          \* the arguments of index_documents and the document tree it walks
    collection,          \* the records of the story_knowledge collection in the vector store
    index_run,           \* the position of the running index_documents call and what it reported
    session_search,      \* the latest of the searches made one after another on one instance: its query, the cache before it, the embedding it used
    context_call,        \* the paragraphs of one section as chunk_by_paragraph split them, and the chunking configuration
    context_out,         \* the chunks the paragraph loop made of them, with the text _add_context returned
    settings_data,       \* generate_index_content: the sections of each collected file
    index_content,       \* generate_index_content: the returned text, line by line
    path_str,            \* _get_file_type: the path, token by token
    file_types           \* _get_file_type: what each class returned

vars == <<config, _query_embed_cache, call, outcome, content, chunks, segmenter,
          id_args, ids, dedup_in, dedup_out,
          character_call, character_out,
          format_in, format_out,
          embed_call, embed_run,
          shared_cache, searchers,
          index_call, collection, index_run,
          session_search,
          context_call, context_out,
          settings_data, index_content,
          path_str, file_types>>

searchVars == <<config, _query_embed_cache, call, outcome>>
chunkVars == <<content, chunks, segmenter>>
idVars == <<id_args, ids>>
dedupVars == <<dedup_in, dedup_out>>
characterVars == <<character_call, character_out>>
formatVars == <<format_in, format_out>>
embedVars == <<embed_call, embed_run>>
raceVars == <<shared_cache, searchers>>
indexVars == <<index_call, collection, index_run>>
sessionVars == <<session_search>>
contextVars == <<context_call, context_out>>
tocVars == <<settings_data, index_content>>
typeVars == <<path_str, file_types>>

----------------------------------------------------------------------------
\* Bounds of the model

\* records in the vector store that match a query
MaxDocs == 3
\* largest top_k a caller asks for
MaxTopK == 3
\* lines of an enumerated document
MaxLines == 4
\* results in a list handed to _deduplicate_results
MaxResults == 4
\* paragraphs in the first section of the long chapter document
ManyParagraphs == 101
\* results the store gives one sub-query of search_character
MaxReply == 2
\* texts handed to get_embeddings_batch
MaxTexts == 3
\* largest batch_size of a get_embeddings_batch call
MaxBatchSize == 2
\* largest number of worker threads
MaxWorkers == 2
\* threads searching one instance at the same time
Threads == 2
\* markdown files in the tree index_documents walks
MaxIndexDocs == 2
\* calls to the embedding service in one session of searches
MaxEmbeddingCalls == 13
\* paragraphs in the section handed to the paragraph loop
MaxParagraphs == 3
\* results in a list handed to format_search_results
MaxFormatted == 2
\* largest top_k a caller of search_character asks for
MaxCharacterTopK == 2

----------------------------------------------------------------------------
\* Small helpers

None == "None"

Min(a, b) == IF a <= b THEN a ELSE b

Max(a, b) == IF a >= b THEN a ELSE b

\* Python's s[:k]
Prefix(s, k) ==
    IF k >= 0 THEN SubSeq(s, 1, Min(k, Len(s)))
    ELSE SubSeq(s, 1, Max(0, Len(s) + k))

\* Python's zip(a, b): pairs up to the shorter of the two
Zip(a, b) == [i \in 1..Min(Len(a), Len(b)) |-> <<a[i], b[i]>>]

\* the members of a set of integers, in ascending order
Ordered(S) ==
    LET rank == [i \in S |-> Cardinality({j \in S : j <= i})]
    IN  [k \in 1..Cardinality(S) |-> CHOOSE i \in S : rank[i] = k]

\* all sequences over S of length 0..n
SeqsUpTo(S, n) == UNION {[1..k -> S] : k \in 0..n}

Raised == [kind |-> "raised", results |-> <<>>]

Returned(rs) == [kind |-> "returned", results |-> rs]

----------------------------------------------------------------------------
\* The retrieval pipeline (rag_base.py, story_rag_system.py)

Queries == {"q1", "q2"}

\* rerank scores the service may return: 0.1, 0.5, 0.9
Scores == {1, 5, 9}

\* values of models.reranker.max_results
MaxResultsValues == {2, 10}

\* values of models.reranker.score_threshold (0.0 is the fallback, 0.5 the default file)
ThresholdValues == {0, 5}

\* With search.enable_rerank off the three reranker settings are never used:
\* one representative of them is kept.
Configs ==
    {c \in [enable_rerank : BOOLEAN, reranker_enabled : BOOLEAN,
            max_results : MaxResultsValues, score_threshold : ThresholdValues] :
        ~c.enable_rerank =>
            c.reranker_enabled /\ c.max_results = 10 /\ c.score_threshold = 5}

\* the embedding service's vector for a query
Embedding(query) == <<"embedding", query>>

\* an item of a {'results': [...]} rerank response, with or without relevance_score
ResultItems == {[has_score |-> FALSE, relevance_score |-> 0],
                [has_score |-> TRUE, relevance_score |-> 9]}

\* what ollama gives the rerank call: no rerank attribute at all, an exception,
\* {'scores': [...]}, {'results': [...]}, or a response with neither key
RerankResponses ==
    {[kind |-> k, scores |-> <<>>, results |-> <<>>] :
        k \in {"no_interface", "raises", "unrecognised"}}
    \cup {[kind |-> "scores", scores |-> s, results |-> <<>>] :
        s \in SeqsUpTo(Scores, MaxDocs + 1)}
    \cup {[kind |-> "results", scores |-> <<>>, results |-> r] :
        r \in SeqsUpTo(ResultItems, MaxDocs + 1)}

NoResponse == [kind |-> "unrecognised", scores |-> <<>>, results |-> <<>>]

\* the collaborators' behaviour during one search call; when the embedding
\* service or the store raises, the rest of the call never consults the others
Envs ==
    {e \in [embedding_raises : BOOLEAN, store_raises : BOOLEAN,
            n_matches : 0..MaxDocs, response : RerankResponses] :
        (e.embedding_raises \/ e.store_raises) =>
            e.n_matches = 0 /\ e.response = NoResponse}

\* the records of the collection matching the query, nearest first; record i
\* is document i at distance 0.i
StoreMatches(n) == [i \in 1..n |-> [content |-> i, metadata |-> i, distance |-> i]]

\* collection.query(n_results = k): the k nearest of the matching records
collection_query(n_matches, k) == Prefix(StoreMatches(n_matches), k)

\* --- the query-embedding cache, a dict in insertion order ---

CacheCapacity == 10

cache_key(query) == <<"query_embed", query>>

CacheHas(cache, key) == \E i \in 1..Len(cache) : cache[i].key = key

CacheGet(cache, key) == cache[CHOOSE i \in 1..Len(cache) : cache[i].key = key].value

CachePut_mut_evicts_newest(cache, key, value) ==
    LET put == Append(cache, [key |-> key, value |-> value])
    IN  IF Len(put) > CacheCapacity THEN SubSeq(put, 1, Len(put) - 1) ELSE put

\* cache[key] = value, then drop the oldest key while over capacity
CachePut(cache, key, value) ==
    LET put == IF CacheHas(cache, key)
               THEN [i \in 1..Len(cache) |->
                        IF cache[i].key = key THEN [key |-> key, value |-> value]
                        ELSE cache[i]]
               ELSE Append(cache, [key |-> key, value |-> value])
    IN  IF Len(put) > CacheCapacity THEN Tail(put) ELSE put

\* --- OllamaModelInterface.rerank ---

rerank_mut_fallback(documents, reranker_enabled, response) ==
    IF ~reranker_enabled THEN [raised |-> FALSE, scores |-> [i \in 1..Len(documents) |-> 10]]
    ELSE IF documents = <<>> THEN [raised |-> FALSE, scores |-> <<>>]
    ELSE IF response.kind = "scores" THEN [raised |-> FALSE, scores |-> response.scores]
    ELSE IF response.kind = "results"
    THEN [raised |-> FALSE,
          scores |-> [i \in 1..Len(response.results) |->
                        IF response.results[i].has_score
                        THEN response.results[i].relevance_score ELSE 5]]
    ELSE [raised |-> FALSE, scores |-> [i \in 1..Len(documents) |-> 10]]

rerank(documents, reranker_enabled, response) ==
    IF ~reranker_enabled THEN [raised |-> FALSE, scores |-> [i \in 1..Len(documents) |-> 10]]
    ELSE IF documents = <<>> THEN [raised |-> FALSE, scores |-> <<>>]
    ELSE IF response.kind = "scores" THEN [raised |-> FALSE, scores |-> response.scores]
    ELSE IF response.kind = "results"
    THEN [raised |-> FALSE,
          scores |-> [i \in 1..Len(response.results) |->
                        IF response.results[i].has_score
                        THEN response.results[i].relevance_score ELSE 5]]
    ELSE [raised |-> TRUE, scores |-> <<>>]

\* --- BaseRAGSystem._search_vector ---

_search_vector(query, top_k, cache, env) ==
    LET key == cache_key(query)
        hit == CacheHas(cache, key)
        embed_called == ~hit
        embed_raised == embed_called /\ env.embedding_raises
        cache1 == IF hit \/ embed_raised THEN cache
                  ELSE CachePut(cache, key, Embedding(query))
        store_called == ~embed_raised
        store_raised == store_called /\ env.store_raises
    IN  [kind |-> IF embed_raised \/ store_raised THEN "raised" ELSE "returned",
         results |-> IF embed_raised \/ store_raised THEN <<>>
                     ELSE collection_query(env.n_matches, top_k),
         cache |-> cache1,
         embed_called |-> embed_called, embed_raised |-> embed_raised,
         store_called |-> store_called, store_raised |-> store_raised]

\* --- BaseRAGSystem.search_with_rerank, step by step ---

initial_top_k(top_k, enable_rerank, max_results) ==
    IF enable_rerank THEN Min(max_results, Max(top_k * 2, 10)) ELSE top_k

returns_unreranked_mut_always_rerank(initial_results, enable_rerank) ==
    initial_results = <<>>

\* "if not initial_results or not enable_rerank"
returns_unreranked(initial_results, enable_rerank) ==
    initial_results = <<>> \/ ~enable_rerank

\* the zip loop: one copy per (result, score) pair, with the score attached
merge_scores(initial_results, rerank_scores) ==
    [i \in 1..Len(Zip(initial_results, rerank_scores)) |->
        [content |-> initial_results[i].content,
         metadata |-> initial_results[i].metadata,
         distance |-> initial_results[i].distance,
         original_distance |-> initial_results[i].distance,
         rerank_score |-> rerank_scores[i],
         final_score |-> rerank_scores[i]]]

\* list.sort(key = rerank_score, reverse = True) is stable: a result goes after
\* every result, already placed, whose score is at least its own
InsertByScore(sorted, x) ==
    LET before == {i \in 1..Len(sorted) : sorted[i].rerank_score >= x.rerank_score}
        n == Cardinality(before)
    IN  SubSeq(sorted, 1, n) \o <<x>> \o SubSeq(sorted, n + 1, Len(sorted))

RECURSIVE SortDescending(_)
SortDescending(s) ==
    IF s = <<>> THEN <<>>
    ELSE InsertByScore(SortDescending(SubSeq(s, 1, Len(s) - 1)), s[Len(s)])

Reverse(s) == [i \in 1..Len(s) |-> s[Len(s) + 1 - i]]

sort_by_rerank_score_mut_reversed_ascending(results) ==
    SortDescending(Reverse(results))

sort_by_rerank_score(results) == SortDescending(results)

RECURSIVE filter_low_scores(_, _)
filter_low_scores(results, score_threshold) ==
    IF results = <<>> THEN <<>>
    ELSE IF Head(results).rerank_score >= score_threshold
    THEN <<Head(results)>> \o filter_low_scores(Tail(results), score_threshold)
    ELSE filter_low_scores(Tail(results), score_threshold)

NoRerank == [called |-> FALSE, raised |-> FALSE, scores |-> <<>>]

search_with_rerank(query, top_k, cfg, cache, env) ==
    LET k == initial_top_k(top_k, cfg.enable_rerank, cfg.max_results)
        sv == _search_vector(query, k, cache, env)
        trace == [initial_top_k |-> k, cache |-> sv.cache,
                  embed_called |-> sv.embed_called, embed_raised |-> sv.embed_raised,
                  store_called |-> sv.store_called, store_raised |-> sv.store_raised,
                  initial_results |-> sv.results]
    IN  IF sv.kind = "raised"
        THEN [kind |-> "raised", results |-> <<>>, rerank |-> NoRerank, trace |-> trace]
        ELSE IF returns_unreranked(sv.results, cfg.enable_rerank)
        THEN [kind |-> "returned", results |-> Prefix(sv.results, top_k),
              rerank |-> NoRerank, trace |-> trace]
        ELSE LET documents == [i \in 1..Len(sv.results) |-> sv.results[i].content]
                 rr == rerank(documents, cfg.reranker_enabled, env.response)
                 reply == [called |-> TRUE, raised |-> rr.raised, scores |-> rr.scores]
             IN  IF rr.raised
                 THEN [kind |-> "raised", results |-> <<>>, rerank |-> reply,
                       trace |-> trace]
                 ELSE [kind |-> "returned",
                       results |-> Prefix(
                           filter_low_scores(
                               sort_by_rerank_score(merge_scores(sv.results, rr.scores)),
                               cfg.score_threshold),
                           top_k),
                       rerank |-> reply, trace |-> trace]

\* --- BaseRAGSystem.search ---

search(query, top_k, cfg, cache, env) == search_with_rerank(query, top_k, cfg, cache, env)

\* --- StoryRAGSystem.search: no cache, no rerank, and a try/except around it all ---

story_search(query, top_k, env) ==
    LET embed_raised == env.embedding_raises
        store_called == ~embed_raised
        store_raised == store_called /\ env.store_raises
        failed == embed_raised \/ store_raised
    IN  [kind |-> "returned",
         results |-> IF failed THEN <<>> ELSE collection_query(env.n_matches, top_k),
         rerank |-> NoRerank,
         trace |-> [initial_top_k |-> top_k, cache |-> <<>>,
                    embed_called |-> TRUE, embed_raised |-> embed_raised,
                    store_called |-> store_called, store_raised |-> store_raised,
                    initial_results |-> IF failed THEN <<>>
                                        ELSE collection_query(env.n_matches, top_k)]]

NoTrace ==
    [initial_top_k |-> 0, embed_called |-> FALSE, embed_raised |-> FALSE,
     store_called |-> FALSE, store_raised |-> FALSE, initial_results |-> <<>>,
     rerank |-> NoRerank]

\* a call about to be made: its entry point, arguments and environment
PendingCall(entry, query, top_k, env) ==
    [entry |-> entry, query |-> query, top_k |-> top_k, env |-> env,
     trace |-> NoTrace]

TraceOf(r) ==
    [initial_top_k |-> r.trace.initial_top_k,
     embed_called |-> r.trace.embed_called, embed_raised |-> r.trace.embed_raised,
     store_called |-> r.trace.store_called, store_raised |-> r.trace.store_raised,
     initial_results |-> r.trace.initial_results,
     rerank |-> r.rerank]

Pending == [kind |-> "pending", results |-> <<>>]

CacheEntry(query) == [key |-> cache_key(query), value |-> Embedding(query)]

\* caches an instance can hold when a search starts
InitialCaches == {<<>>, <<CacheEntry("q1")>>}

DefaultConfig ==
    [enable_rerank |-> TRUE, reranker_enabled |-> TRUE, max_results |-> 10,
     score_threshold |-> 5]

\* defaults of the variables a specification does not use
IdleSearch ==
    /\ config = DefaultConfig
    /\ _query_embed_cache = <<>>
    /\ call = PendingCall("none", "q1", 0, CHOOSE e \in Envs : TRUE)
    /\ outcome = Returned(<<>>)

IdleChunk ==
    /\ content = <<>>
    /\ chunks = <<>>
    /\ segmenter = "none"

NoIds == [impl |-> "none", first |-> <<>>, second |-> <<>>]

IdleId ==
    /\ id_args = <<>>
    /\ ids = NoIds

NotDeduplicated == [done |-> FALSE, results |-> <<>>]

IdleDedup ==
    /\ dedup_in = <<>>
    /\ dedup_out = NotDeduplicated

NoCharacterCall ==
    [entry |-> "none", character_name |-> "stranger", top_k |-> 0,
     expand_variants |-> TRUE, replies |-> <<>>, fails_at |-> 0, fails_in |-> "nowhere"]

NoCharacterResult == [kind |-> "pending", results |-> <<>>, searches |-> <<>>]

IdleCharacter ==
    /\ character_call = NoCharacterCall
    /\ character_out = NoCharacterResult

NotFormatted == [done |-> FALSE, formatted |-> <<>>, results |-> <<>>]

IdleFormat ==
    /\ format_in = <<>>
    /\ format_out = NotFormatted

NoEmbedCall == [texts |-> <<>>, batch_size |-> 1, parallel_workers |-> 1, fails |-> {}]

\* one get_embeddings_batch call before it starts
NewEmbedRun ==
    [pc |-> "loop", i |-> 0, next |-> 0, running |-> {}, finished |-> {},
     collected |-> <<>>, batch_embeddings |-> <<>>, all_embeddings |-> <<>>,
     outcome |-> "pending"]

IdleEmbed ==
    /\ embed_call = NoEmbedCall
    /\ embed_run = [class \in {"base", "story"} |-> [NewEmbedRun EXCEPT !.pc = "idle"]]

\* a thread inside _search_vector: where it is, its query, the dict its
\* iterator holds and that dict's size when the iterator was made, the key it
\* means to evict
NewSearcher(query) ==
    [pc |-> "check", query |-> query, iter_dict |-> 0, iter_len |-> 0, oldest_key |-> <<>>,
     outcome |-> "pending"]

IdleRace ==
    /\ shared_cache = [exists |-> FALSE, entries |-> <<>>, discarded |-> <<>>,
                       initially |-> "absent"]
    /\ searchers = <<>>

NoIndexCall == [force_reindex |-> FALSE, documents |-> <<>>]

NoIndexRun ==
    [pc |-> "idle", round |-> "none", file |-> 0, all_chunks |-> <<>>, i |-> 0,
     failed_batches |-> {}, outcome |-> "pending", reported |-> "nothing",
     before |-> {}, embedding_calls |-> 0]

IdleIndex ==
    /\ index_call = NoIndexCall
    /\ collection = {}
    /\ index_run = NoIndexRun

NoSessionSearch ==
    [calls |-> 0, fetches |-> <<>>, query |-> 0, kind |-> "none", embedding_calls |-> 0,
     query_embedding |-> <<>>, before |-> <<>>]

IdleSession == session_search = NoSessionSearch

NoContextCall ==
    [all_paragraphs |-> <<>>, add_context |-> TRUE, context_chars |-> 200, min_chunk_size |-> 50]

NoContextChunks == [done |-> FALSE, chunks |-> <<>>]

IdleContext ==
    /\ context_call = NoContextCall
    /\ context_out = NoContextChunks

NoSettingsData == [file_path \in {} |-> <<>>]

NoIndexContent == [done |-> FALSE, text |-> <<>>]

IdleToc ==
    /\ settings_data = NoSettingsData
    /\ index_content = NoIndexContent

NoFileTypes == [base |-> "pending", story |-> "pending"]

IdleType ==
    /\ path_str = <<>>
    /\ file_types = NoFileTypes

\* A search is a synchronous call: the state before it holds the instance
\* (configuration, cache) and the call about to be made.  StoryRAGSystem has
\* no configuration object and no cache.
InitSearch ==
    /\ \/ /\ config \in Configs
          /\ _query_embed_cache \in InitialCaches
          /\ call \in {PendingCall("base", q, k, e) :
                          q \in Queries, k \in 0..MaxTopK, e \in Envs}
       \/ /\ config = DefaultConfig
          /\ _query_embed_cache = <<>>
          /\ call \in {PendingCall("story", q, k, e) :
                          q \in Queries, k \in 0..MaxTopK, e \in Envs}
    /\ outcome = Pending
    /\ IdleChunk /\ IdleId /\ IdleDedup /\ IdleCharacter /\ IdleFormat /\ IdleEmbed /\ IdleRace /\ IdleIndex /\ IdleSession /\ IdleContext /\ IdleToc /\ IdleType

\* the call of BaseRAGSystem.search
Search ==
    /\ outcome = Pending
    /\ call.entry = "base"
    /\ LET r == search(call.query, call.top_k, config, _query_embed_cache, call.env)
       IN  /\ call' = [call EXCEPT !.trace = TraceOf(r)]
           /\ outcome' = [kind |-> r.kind, results |-> r.results]
           /\ _query_embed_cache' = r.trace.cache
    /\ UNCHANGED <<config, chunkVars, idVars, dedupVars, characterVars, formatVars, embedVars, raceVars, indexVars, sessionVars, contextVars, tocVars, typeVars>>

\* the call of StoryRAGSystem.search
StorySearch ==
    /\ outcome = Pending
    /\ call.entry = "story"
    /\ LET r == story_search(call.query, call.top_k, call.env)
       IN  /\ call' = [call EXCEPT !.trace = TraceOf(r)]
           /\ outcome' = [kind |-> r.kind, results |-> r.results]
    /\ UNCHANGED <<config, _query_embed_cache, chunkVars, idVars, dedupVars, characterVars, formatVars, embedVars, raceVars, indexVars, sessionVars, contextVars, tocVars, typeVars>>

NextSearch == Search \/ StorySearch

Spec == InitSearch /\ [][NextSearch]_vars

----------------------------------------------------------------------------
\* Text.  A string is a sequence of one-character strings.  A document is the
\* list content.split('\n'): a line is a header ('#' * level, a space, the
\* title) or plain text, of which only the length matters (0: an empty line).
\* Lines carry no leading or trailing white space, but for the header without
\* a title, which ends with its space.  The text of a plain line is written
\* as "x" repeated.

Digit(d) == <<"0", "1", "2", "3", "4", "5", "6", "7", "8", "9">>[d + 1]

\* str(n) for n >= 0
RECURSIVE Digits(_)
Digits(n) == IF n < 10 THEN <<Digit(n)>> ELSE Digits(n \div 10) \o <<Digit(n % 10)>>

TextLine(n) == [level |-> 0, title |-> <<>>, len |-> n]

HeaderLine(level, title) == [level |-> level, title |-> title, len |-> level + 1 + Len(title)]

\* the lengths of lines lo..hi added up (as the size of a bag: a document may
\* be hundreds of lines long)
SumLen(ls, lo, hi) ==
    BagCardinality([i \in {j \in lo..hi : ls[j].len > 0} |-> ls[i].len])

\* the line is hashes and a space with no title after them
IsUntitledHeader(line) == line.level > 0 /\ line.title = <<>>

\* the characters of a line
LineText(line) ==
    IF line.level = 0 THEN [i \in 1..line.len |-> "x"]
    ELSE [i \in 1..line.level |-> "#"] \o <<" ">> \o line.title

\* len('\n'.join(ls).strip()): empty lines at both ends go, with their
\* newlines, and so does the space that ends an untitled header in last place
StripLen(ls) ==
    LET full == {i \in 1..Len(ls) : ls[i].len > 0}
    IN  IF full = {} THEN 0
        ELSE LET lo == CHOOSE i \in full : \A j \in full : i <= j
                 hi == CHOOSE i \in full : \A j \in full : i >= j
             IN  SumLen(ls, lo, hi) + (hi - lo)
                    - (IF IsUntitledHeader(ls[hi]) THEN 1 ELSE 0)

\* --- _generate_chunk_id ---

\* md5(...).hexdigest(), taken as collision-free: the digest names its input
md5(s) == <<"md5", s>>

chunk_key_mut_without_title(file_path, index, title) ==
    file_path \o <<"_">> \o Digits(index)

\* f"{file_path}_{index}_{title}"
chunk_key(file_path, index, title) ==
    file_path \o <<"_">> \o Digits(index) \o <<"_">> \o title

_generate_chunk_id(file_path, index, title) == md5(chunk_key(file_path, index, title))

\* --- the segmenters ---

FilePath == <<"f">>

\* "其他": no path rule matches FilePath
FileType == "other"

MinSectionLen == 20

\* document_processing.chunking.min_chunk_size, and the 50 of StoryRAGSystem
MinChunkSize == 50

\* document_processing.chunking.context_chars
ContextChars == 200

IndexStride == 100

Chunk(type, title, level, para_idx, index, start_line, end_line, core, prev, next, id) ==
    [chunk_type |-> type, section_title |-> title, section_level |-> level,
     paragraph_index |-> para_idx, chunk_index |-> index,
     start_line |-> start_line, end_line |-> end_line,
     core_len |-> core, prev_context |-> prev, next_context |-> next,
     content_len |-> core + (IF prev >= 0 THEN 7 + prev + 2 ELSE 0)
                         + (IF next >= 0 THEN 6 + next + 3 ELSE 0),
     file_path |-> FilePath, file_type |-> FileType, chunk_id |-> id]

\* re.match(r'^(#{2,6})\s+(.+)$', line.strip()): hashes with nothing after them
\* are no header once the line is stripped
IsSectionHeader(line) == line.level \in 2..6 /\ line.title # <<>>

\* the 1-based line numbers of the headers, in order
HeaderLines(lines) == Ordered({i \in 1..Len(lines) : IsSectionHeader(lines[i])})

section_end_mut_strictly_shallower(lines, headers, idx) ==
    LET later == {j \in (idx + 1)..Len(headers) :
                    lines[headers[j]].level < lines[headers[idx]].level}
    IN  IF later = {} THEN Len(lines)
        ELSE headers[CHOOSE j \in later : \A k \in later : j <= k] - 1

\* end_line: the line before the next header of the same or a shallower level,
\* or the last line (0-based exclusive, which is 1-based inclusive)
section_end(lines, headers, idx) ==
    LET later == {j \in (idx + 1)..Len(headers) :
                    lines[headers[j]].level <= lines[headers[idx]].level}
    IN  IF later = {} THEN Len(lines)
        ELSE headers[CHOOSE j \in later : \A k \in later : j <= k] - 1

\* _create_single_chunk(content, file_path, chunk_type)
_create_single_chunk(lines, chunk_type) ==
    IF StripLen(lines) = 0 THEN <<>>
    ELSE <<Chunk(chunk_type, <<chunk_type>>, -1, -1, 0, 1, Len(lines), StripLen(lines),
                 -1, -1, _generate_chunk_id(FilePath, 0, <<chunk_type>>))>>

\* "if section_content and len(section_content) > 20"
keeps_section(section_len) == section_len > 0 /\ section_len > MinSectionLen

RECURSIVE SectionChunks(_, _, _, _)
SectionChunks(lines, headers, idx, acc) ==
    IF idx > Len(headers) THEN acc
    ELSE LET start == headers[idx]
             end == section_end(lines, headers, idx)
             n == StripLen(SubSeq(lines, start, end))
             title == lines[start].title
         IN  SectionChunks(lines, headers, idx + 1,
                IF keeps_section(n)
                THEN Append(acc, Chunk("section", title, lines[start].level, -1, Len(acc),
                                       start, end, n, -1, -1,
                                       _generate_chunk_id(FilePath, Len(acc), title)))
                ELSE acc)

\* BaseRAGSystem.chunk_by_section
chunk_by_section(lines) ==
    LET headers == HeaderLines(lines)
    IN  IF headers = <<>> THEN _create_single_chunk(lines, "document")
        ELSE SectionChunks(lines, headers, 1, <<>>)

\* --- StoryRAGSystem.chunk_by_section: the flat two-level variant ---

\* line.startswith('## ') and not line.startswith('### ')
IsLevel2Header(line) == line.level = 2

\* "if current_section and section_lines: ... if section_content:"
StoryFlush(lines, start, end, acc) ==
    IF start = 0 \/ lines[start].title = <<>> THEN acc
    ELSE LET n == StripLen(SubSeq(lines, start, end))
             title == lines[start].title
         IN  IF n > 0
             THEN Append(acc, Chunk("section", title, -1, -1, Len(acc), start, end, n,
                                    -1, -1, _generate_chunk_id(FilePath, Len(acc), title)))
             ELSE acc

\* the loop, one level-2 header at a time: the lines up to the next level-2
\* header (or the end) were appended to section_lines, and are flushed there;
\* lines before the first level-2 header are appended to nothing
RECURSIVE StorySections(_, _, _, _)
StorySections(lines, h2, k, acc) ==
    IF k > Len(h2) THEN acc
    ELSE StorySections(lines, h2, k + 1,
            StoryFlush(lines, h2[k],
                       IF k < Len(h2) THEN h2[k + 1] - 1 ELSE Len(lines), acc))

story_chunk_by_section(lines) ==
    StorySections(lines, Ordered({i \in 1..Len(lines) : IsLevel2Header(lines[i])}),
                  1, <<>>)

\* --- generate_index.extract_sections_with_lines ---

RECURSIVE JoinTitles(_)
JoinTitles(path) ==
    IF Len(path) = 1 THEN path[1]
    ELSE path[1] \o <<" ", ">", " ">> \o JoinTitles(Tail(path))

\* the walk back over headers[0 .. idx-1], collecting each header shallower
\* than the last one collected
RECURSIVE TitlePath(_, _, _, _, _)
TitlePath(lines, headers, i, current_level, path) ==
    IF i = 0 THEN path
    ELSE IF lines[headers[i]].level < current_level
    THEN TitlePath(lines, headers, i - 1, lines[headers[i]].level,
                   <<lines[headers[i]].title>> \o path)
    ELSE TitlePath(lines, headers, i - 1, current_level, path)

extract_sections_with_lines(lines) ==
    LET headers == HeaderLines(lines)
    IN  IF headers = <<>>
        THEN IF StripLen(lines) > 0
             THEN <<[title |-> <<"whole document">>, start_line |-> 1,
                     end_line |-> Len(lines)]>>
             ELSE <<>>
        ELSE [idx \in 1..Len(headers) |->
                [title |-> JoinTitles(TitlePath(lines, headers, idx - 1,
                                                lines[headers[idx]].level,
                                                <<lines[headers[idx]].title>>)),
                 start_line |-> headers[idx],
                 end_line |-> section_end(lines, headers, idx)]]

\* --- chunk_by_paragraph (BaseRAGSystem and StoryRAGSystem) ---

\* a line that re.split(r'\n(?=#{1,3}\s)') splits before
IsParagraphSectionHeader(line) == line.level \in 1..3

\* the first lines of the sections: line 1 and every later header line
SectionStarts(lines) ==
    Ordered({1} \cup {i \in 2..Len(lines) : IsParagraphSectionHeader(lines[i])})

\* sections = re.split(r'\n(?=#{1,3}\s)', content), each as its lines
SplitSections(lines) ==
    LET starts == SectionStarts(lines)
    IN  [k \in 1..Len(starts) |->
            SubSeq(lines, starts[k],
                   IF k < Len(starts) THEN starts[k + 1] - 1 ELSE Len(lines))]

\* paragraphs = re.split(r'\n\s*\n', section), each as its lines.  A separator
\* is a newline, the empty lines after it and the newline ending the last of
\* them: it swallows every empty line that is neither the first nor the last
\* line of the section, and the paragraphs are the runs of lines in between.
SplitParagraphs(ls) ==
    LET n == Len(ls)
        seps == {i \in 2..(n - 1) : ls[i].len = 0}
        rest == (1..n) \ seps
        starts == Ordered({i \in rest : i = 1 \/ (i - 1) \in seps})
        ends == Ordered({i \in rest : i = n \/ (i + 1) \in seps})
    IN  [k \in 1..Len(starts) |-> SubSeq(ls, starts[k], ends[k])]

\* _add_context: the lengths of the context taken from the two neighbours, -1
\* where there is none
prev_context(paragraphs, para_idx) ==
    IF para_idx > 0 /\ StripLen(paragraphs[para_idx]) > 0
    THEN Min(ContextChars, StripLen(paragraphs[para_idx]))
    ELSE -1

next_context(paragraphs, para_idx) ==
    IF para_idx < Len(paragraphs) - 1 /\ StripLen(paragraphs[para_idx + 2]) > 0
    THEN Min(ContextChars, StripLen(paragraphs[para_idx + 2]))
    ELSE -1

\* "if len(para.strip()) < min_chunk_size: ... continue"
keeps_paragraph(para_len, min_chunk_size) == ~(para_len < min_chunk_size)

paragraph_index(section_idx, para_idx) == section_idx * IndexStride + para_idx

\* para_start_line when the loop reaches paragraph para_idx (0-based): kept or
\* dropped, every earlier paragraph moved it on by para.count('\n') + 2
para_start_line(paragraphs, section_start_line, para_idx) ==
    section_start_line
        + BagCardinality([i \in 1..para_idx |-> (Len(paragraphs[i]) - 1) + 2])

\* the loop over the paragraphs of one section: one chunk per kept paragraph
ParagraphChunks(paragraphs, section_idx, title, min_chunk_size, section_start_line) ==
    LET kept == Ordered({para_idx \in 0..(Len(paragraphs) - 1) :
                    keeps_paragraph(StripLen(paragraphs[para_idx + 1]), min_chunk_size)})
    IN  [r \in 1..Len(kept) |->
            LET para_idx == kept[r]
                para == paragraphs[para_idx + 1]
                start == para_start_line(paragraphs, section_start_line, para_idx)
                index == paragraph_index(section_idx, para_idx)
            IN  Chunk("paragraph", title, -1, para_idx, index,
                      start, start + (Len(para) - 1), StripLen(para),
                      prev_context(paragraphs, para_idx),
                      next_context(paragraphs, para_idx),
                      _generate_chunk_id(FilePath, index,
                          title \o <<"_", "p", "a", "r", "a">> \o Digits(para_idx)))]

\* title_match.group(2) of re.match(r'^(#{1,3})\s*(.+)', section), or
\* f"Section {section_idx+1}".  The pattern is matched against the whole
\* section: after one to three hashes \s* runs over spaces and newlines and
\* (.+) takes the rest of the line it stops in.  Of a header of level 4 to 6
\* three hashes are matched and the title begins with the others; after an
\* untitled header the title is the next line that is not empty, or, when
\* there is none, the header's own space.
SectionTitle(section, section_idx) ==
    LET first == section[1]
        later == {i \in 2..Len(section) : section[i].len > 0}
    IN  IF first.level = 0
        THEN <<"S", "e", "c", "t", "i", "o", "n", " ">> \o Digits(section_idx + 1)
        ELSE IF first.level > 3
        THEN [i \in 1..(first.level - 3) |-> "#"] \o <<" ">> \o first.title
        ELSE IF first.title # <<>> THEN first.title
        ELSE IF later = {} THEN <<" ">>
        ELSE LineText(section[CHOOSE i \in later : \A j \in later : i <= j])

\* the loop over the sections; section_idx is 0-based
RECURSIVE ParagraphSections(_, _, _, _, _)
ParagraphSections(sections, min_chunk_size, section_idx, current_line, acc) ==
    IF section_idx >= Len(sections) THEN acc
    ELSE LET section == sections[section_idx + 1]
             next_line == current_line + (Len(section) - 1) + 1
         IN  IF StripLen(section) = 0
             THEN ParagraphSections(sections, min_chunk_size, section_idx + 1, next_line, acc)
             ELSE ParagraphSections(sections, min_chunk_size, section_idx + 1, next_line,
                    acc \o ParagraphChunks(SplitParagraphs(section), section_idx,
                                           SectionTitle(section, section_idx),
                                           min_chunk_size, current_line))

paragraph_chunks(lines, min_chunk_size) ==
    ParagraphSections(SplitSections(lines), min_chunk_size, 0, 1, <<>>)

\* BaseRAGSystem.chunk_by_paragraph: min_chunk_size comes from the configuration
chunk_by_paragraph(lines) == paragraph_chunks(lines, MinChunkSize)

\* StoryRAGSystem.chunk_by_paragraph: the 50 is written in the code
story_chunk_by_paragraph(lines) == paragraph_chunks(lines, 50)

\* --- the documents handed to the segmenters ---

Titles == {<<"A">>, <<"B">>}

LineKinds ==
    {TextLine(n) : n \in {0, 15, 45}}
    \cup {HeaderLine(1, <<"A">>)}
    \cup {HeaderLine(l, t) : l \in {2, 3}, t \in Titles}

\* a chapter with two sections, the first of ManyParagraphs one-line paragraphs
\* (the header line belongs to the first) separated by one empty line
LongChapter ==
    <<HeaderLine(2, <<"A">>), TextLine(45)>>
    \o [i \in 1..(2 * (ManyParagraphs - 1)) |->
            IF i % 2 = 1 THEN TextLine(0) ELSE TextLine(50)]
    \o <<HeaderLine(2, <<"B">>), TextLine(45)>>

\* a short paragraph, two empty lines, then a paragraph long enough to be kept
SpacedParagraphs == <<TextLine(15), TextLine(0), TextLine(0), TextLine(50)>>

\* a section with a title, then a line "## " that has none
UntitledSection ==
    <<HeaderLine(2, <<"A">>), TextLine(45), HeaderLine(2, <<>>), TextLine(45)>>

\* an untitled header in last place; an untitled header with a paragraph under
\* it; a header of level 4 in first place
UntitledTail == <<TextLine(15), HeaderLine(4, <<>>)>>
UntitledHead == <<HeaderLine(1, <<>>), TextLine(0), TextLine(50)>>
UntitledLevel2 == <<HeaderLine(2, <<"A">>), TextLine(45), HeaderLine(2, <<>>), TextLine(50)>>
DeepFirstHeader == <<HeaderLine(4, <<"A">>), TextLine(50)>>

Documents ==
    (UNION {[1..n -> LineKinds] : n \in 1..MaxLines})
        \cup {LongChapter, SpacedParagraphs, UntitledSection,
              UntitledTail, UntitledHead, UntitledLevel2, DeepFirstHeader}

InitChunk ==
    /\ content \in Documents
    /\ chunks = <<>>
    /\ segmenter = "none"
    /\ IdleSearch /\ IdleId /\ IdleDedup /\ IdleCharacter /\ IdleFormat /\ IdleEmbed /\ IdleRace /\ IdleIndex /\ IdleSession /\ IdleContext /\ IdleToc /\ IdleType

Segment(name, result) ==
    /\ segmenter = "none"
    /\ segmenter' = name
    /\ chunks' = result
    /\ UNCHANGED <<content, searchVars, idVars, dedupVars, characterVars, formatVars, embedVars, raceVars, indexVars, sessionVars, contextVars, tocVars, typeVars>>

ChunkBySection == Segment("chunk_by_section", chunk_by_section(content))

StoryChunkBySection == Segment("story_chunk_by_section", story_chunk_by_section(content))

ExtractSections == Segment("extract_sections", extract_sections_with_lines(content))

ChunkByParagraph == Segment("chunk_by_paragraph", chunk_by_paragraph(content))

StoryChunkByParagraph == Segment("story_chunk_by_paragraph", story_chunk_by_paragraph(content))

NextChunk ==
    \/ ChunkBySection
    \/ StoryChunkBySection
    \/ ExtractSections
    \/ ChunkByParagraph
    \/ StoryChunkByParagraph

SpecChunk == InitChunk /\ [][NextChunk]_vars

----------------------------------------------------------------------------
\* _generate_chunk_id called twice (BaseRAGSystem and StoryRAGSystem hold the
\* same two lines)

story_generate_chunk_id(file_path, index, title) == md5(chunk_key(file_path, index, title))

IdFilePaths == {<<"a">>, <<"a", "_", "1">>, <<"b">>}

IdIndexes == {0, 1, 11}

IdTitles == {<<"A">>, <<"1", "_", "A">>, <<>>}

IdArgs == [file_path : IdFilePaths, index : IdIndexes, title : IdTitles]

InitId ==
    /\ id_args \in IdArgs \X IdArgs
    /\ ids = NoIds
    /\ IdleSearch /\ IdleChunk /\ IdleDedup /\ IdleCharacter /\ IdleFormat /\ IdleEmbed /\ IdleRace /\ IdleIndex /\ IdleSession /\ IdleContext /\ IdleToc /\ IdleType

GenerateChunkIds ==
    /\ ids = NoIds
    /\ ids' = [impl |-> "base",
               first |-> _generate_chunk_id(id_args[1].file_path, id_args[1].index,
                                            id_args[1].title),
               second |-> _generate_chunk_id(id_args[2].file_path, id_args[2].index,
                                             id_args[2].title)]
    /\ UNCHANGED <<id_args, searchVars, chunkVars, dedupVars, characterVars, formatVars, embedVars, raceVars, indexVars, sessionVars, contextVars, tocVars, typeVars>>

StoryGenerateChunkIds ==
    /\ ids = NoIds
    /\ ids' = [impl |-> "story",
               first |-> story_generate_chunk_id(id_args[1].file_path, id_args[1].index,
                                                 id_args[1].title),
               second |-> story_generate_chunk_id(id_args[2].file_path, id_args[2].index,
                                                  id_args[2].title)]
    /\ UNCHANGED <<id_args, searchVars, chunkVars, dedupVars, characterVars, formatVars, embedVars, raceVars, indexVars, sessionVars, contextVars, tocVars, typeVars>>

NextId == GenerateChunkIds \/ StoryGenerateChunkIds

SpecId == InitId /\ [][NextId]_vars

----------------------------------------------------------------------------
\* _deduplicate_results

ResultContents == {"a", "b", "c"}

\* search results: what they say and the file they came from
DedupResults == [content : ResultContents, metadata : {"p", "q"}]

\* hashlib.md5(result['content'].encode()).hexdigest()
content_hash(result) == md5(result.content)

seen_add_mut_forgotten(seen_ids, hash) == seen_ids

\* seen_ids.add(content_hash)
seen_add(seen_ids, hash) == seen_ids \cup {hash}

\* the loop over the results
RECURSIVE DedupLoop(_, _, _)
DedupLoop(results, seen_ids, unique_results) ==
    IF results = <<>> THEN unique_results
    ELSE LET result == Head(results)
         IN  IF content_hash(result) \notin seen_ids
             THEN DedupLoop(Tail(results), seen_add(seen_ids, content_hash(result)),
                            Append(unique_results, result))
             ELSE DedupLoop(Tail(results), seen_ids, unique_results)

_deduplicate_results(results) == DedupLoop(results, {}, <<>>)

InitDedup ==
    /\ dedup_in \in SeqsUpTo(DedupResults, MaxResults)
    /\ dedup_out = NotDeduplicated
    /\ IdleSearch /\ IdleChunk /\ IdleId /\ IdleCharacter /\ IdleFormat /\ IdleEmbed /\ IdleRace /\ IdleIndex /\ IdleSession /\ IdleContext /\ IdleToc /\ IdleType

Deduplicate ==
    /\ ~dedup_out.done
    /\ dedup_out' = [done |-> TRUE, results |-> _deduplicate_results(dedup_in)]
    /\ UNCHANGED <<dedup_in, searchVars, chunkVars, idVars, characterVars, formatVars, embedVars, raceVars, indexVars, sessionVars, contextVars, tocVars, typeVars>>

NextDedup == Deduplicate

SpecDedup == InitDedup /\ [][NextDedup]_vars

----------------------------------------------------------------------------
\* search_character (BaseRAGSystem and StoryRAGSystem).  Names are written in
\* ASCII: "xiao_1" is the persona called Little One, "no_1" its number,
\* "lww_1" its full name, and so on down the table of the source.

CharacterTable ==
    << [names |-> {"xiao_1", "no_1", "lww_1"},
        variants |-> <<"xiao_1", "lww_1", "yandere", "collector", "dating_game">>],
       [names |-> {"xiao_2", "no_2", "lww_2"},
        variants |-> <<"xiao_2", "lww_2", "foodie", "gourmet", "digester">>],
       [names |-> {"xiao_7", "no_7", "lww_7"},
        variants |-> <<"xiao_7", "lww_7", "mathematician", "calculator", "formula_queen">>],
       [names |-> {"xiao_21", "no_21", "lww_21"},
        variants |-> <<"xiao_21", "lww_21", "twenty_one", "childlike">>],
       [names |-> {"xiao_35", "no_35", "lww_35"},
        variants |-> <<"xiao_35", "lww_35", "thirty_five", "lawyer">>],
       [names |-> {"xiao_42", "no_42", "lww_42"},
        variants |-> <<"xiao_42", "lww_42", "forty_two", "answer_keeper">>] >>

\* the if/elif chain: the first group that lists the name, else the name alone
_get_character_variants(character_name) ==
    LET hits == {g \in 1..Len(CharacterTable) : character_name \in CharacterTable[g].names}
    IN  IF hits = {} THEN <<character_name>>
        ELSE CharacterTable[CHOOSE g \in hits : \A h \in hits : g <= h].variants

\* the type filter every character search passes
SettingFilter == "setting"

\* top_k of every sub-query
SubQueryTopK == 3

\* search.character_search.default_top_k, and the default of StoryRAGSystem's parameter
CharacterDefaultTopK == 3

\* top_k = None
NoTopK == -1

\* top_k left out of the call: the parameter takes its default, None in
\* BaseRAGSystem and 3 in StoryRAGSystem
LeftOut == -2

\* final_results[:top_k]: a slice to None is the whole list
slice_to(results, top_k) == IF top_k = NoTopK THEN results ELSE Prefix(results, top_k)

SearchCall(variant, template, top_k) ==
    [variant |-> variant, template |-> template, top_k |-> top_k,
     filter_type |-> SettingFilter]

variant_queries_mut_two_templates(variant) ==
    << SearchCall(variant, "traits", SubQueryTopK),
       SearchCall(variant, "abilities", SubQueryTopK) >>

\* queries = [traits, abilities, dialogue] for one variant
variant_queries(variant) ==
    << SearchCall(variant, "traits", SubQueryTopK),
       SearchCall(variant, "abilities", SubQueryTopK),
       SearchCall(variant, "dialogue", SubQueryTopK) >>

\* the nested loops: every variant in turn, its queries in turn
RECURSIVE AllQueries(_)
AllQueries(variants) ==
    IF variants = <<>> THEN <<>>
    ELSE variant_queries(Head(variants)) \o AllQueries(Tail(variants))

\* "marker in file_path", a path being its sequence of components
CompendiumMarker == "compendium"

PathContains(file_path, marker) == \E i \in 1..Len(file_path) : file_path[i] = marker

is_priority_mut_inverted(result) ==
    ~PathContains(result.metadata.file_path, CompendiumMarker)

is_priority(result) == PathContains(result.metadata.file_path, CompendiumMarker)

is_other(result) == ~is_priority(result)

\* final_results = priority_results + other_results
priority_first(unique_results) ==
    SelectSeq(unique_results, is_priority) \o SelectSeq(unique_results, is_other)

\* what the k-th search of a call gets back: the store's reply cut to its top_k
SearchReply(replies, k, top_k) == Prefix(replies[((k - 1) % Len(replies)) + 1], top_k)

\* all_results.extend(results) over the first n searches
RECURSIVE ExtendAll(_, _, _)
ExtendAll(queries, replies, n) ==
    IF n = 0 THEN <<>>
    ELSE ExtendAll(queries, replies, n - 1) \o SearchReply(replies, n, queries[n].top_k)

\* the loop StoryRAGSystem.search_character holds in place of _deduplicate_results
story_deduplicate(all_results) == DedupLoop(all_results, {}, <<>>)

\* the text of a query: the variant and the words after it
QueryText(query) == <<query.variant, query.template>>

\* what the searches of a call do to the query-embedding cache: search goes
\* through _search_vector, which embeds and stores every query it does not
\* find and drops the oldest entry over capacity.  The fails_at-th search
\* raises in the embedding service (asked only on a miss, nothing is stored)
\* or after it, in the store or the reranker (the entry is stored already).
\* Gives the number of searches made, whether the last raised, and the cache.
RECURSIVE RunSearches(_, _, _, _, _)
RunSearches(queries, k, cache, fails_at, fails_in) ==
    IF k > Len(queries) THEN [made |-> Len(queries), raised |-> FALSE, cache |-> cache]
    ELSE LET key == cache_key(QueryText(queries[k]))
             hit == CacheHas(cache, key)
             embed_raised == ~hit /\ k = fails_at /\ fails_in = "embedding"
             cache1 == IF hit \/ embed_raised THEN cache
                       ELSE CachePut(cache, key, Embedding(QueryText(queries[k])))
         IN  IF embed_raised \/ (k = fails_at /\ fails_in = "store")
             THEN [made |-> k, raised |-> TRUE, cache |-> cache1]
             ELSE RunSearches(queries, k + 1, cache1, fails_at, fails_in)

\* the loops, the de-duplication, the partition and the cut; a search that
\* raises ends the call there
expanded_search(character_name, top_k, replies, ran, class) ==
    LET queries == AllQueries(_get_character_variants(character_name))
        dedup(all_results) == IF class = "base" THEN _deduplicate_results(all_results)
                              ELSE story_deduplicate(all_results)
    IN  IF ran.raised
        THEN [kind |-> "raised", results |-> <<>>,
              searches |-> SubSeq(queries, 1, ran.made), cache |-> ran.cache]
        ELSE [kind |-> "returned",
              results |-> slice_to(
                  priority_first(dedup(ExtendAll(queries, replies, Len(queries)))),
                  top_k),
              searches |-> queries, cache |-> ran.cache]

\* BaseRAGSystem.search_character
search_character(character_name, top_k, expand_variants, replies, fails_at, fails_in, cache) ==
    LET k == IF top_k \in {NoTopK, LeftOut} THEN CharacterDefaultTopK ELSE top_k
    IN  IF ~expand_variants
        THEN LET query == SearchCall(character_name, "persona", k)
                 ran == RunSearches(<<query>>, 1, cache, fails_at, fails_in)
             IN  IF ran.raised
                 THEN [kind |-> "raised", results |-> <<>>, searches |-> <<query>>,
                       cache |-> ran.cache]
                 ELSE [kind |-> "returned", results |-> SearchReply(replies, 1, k),
                       searches |-> <<query>>, cache |-> ran.cache]
        ELSE expanded_search(character_name, k, replies,
                 RunSearches(AllQueries(_get_character_variants(character_name)), 1,
                             cache, fails_at, fails_in),
                 "base")

\* StoryRAGSystem.search_character; its search never raises and keeps no cache.
\* Nothing turns a None into the default: the last slice is then to None
story_search_character(character_name, top_k, replies) ==
    LET k == IF top_k = LeftOut THEN CharacterDefaultTopK ELSE top_k
        queries == AllQueries(_get_character_variants(character_name))
    IN  expanded_search(character_name, k, replies,
            [made |-> Len(queries), raised |-> FALSE, cache |-> <<>>], "story")

CharacterNames == {"xiao_1", "no_1", "lww_21", "yandere", "stranger"}

CharacterResults ==
    [content : {"a", "b"},
     metadata : [file_path : {<<"settings", "compendium">>, <<"settings", "world">>}]]

\* a result outside the compendium
WorldResult(text) == [content |-> text, metadata |-> [file_path |-> <<"settings", "world">>]]

\* two replies that hold four contents between them, more than the default top_k
ManyContents == << <<WorldResult("a"), WorldResult("b")>>, <<WorldResult("c"), WorldResult("d")>> >>

\* what the store gives the searches of one call: two replies, in rotation
CharacterReplies ==
    {<<first, second>> : first \in SeqsUpTo(CharacterResults, MaxReply),
                         second \in SeqsUpTo(CharacterResults, 1)}
        \cup {ManyContents}

\* the cache of a fresh instance, and of one that has made a search of the
\* call before
CharacterCaches ==
    {<<>>, <<CacheEntry(QueryText(SearchCall("xiao_1", "abilities", SubQueryTopK)))>>}

InitCharacter ==
    /\ character_call \in
        {c \in [entry : {"base"}, character_name : CharacterNames,
                top_k : {NoTopK} \cup 0..MaxCharacterTopK, expand_variants : BOOLEAN,
                replies : CharacterReplies, fails_at : {0, 2},
                fails_in : {"nowhere", "embedding", "store"}] :
            (c.fails_at = 0) <=> (c.fails_in = "nowhere")}
        \cup
        [entry : {"story"}, character_name : CharacterNames,
         top_k : {NoTopK, LeftOut} \cup 0..MaxCharacterTopK, expand_variants : {TRUE},
         replies : CharacterReplies, fails_at : {0}, fails_in : {"nowhere"}]
    /\ character_out = NoCharacterResult
    /\ config = DefaultConfig
    /\ _query_embed_cache \in
          IF character_call.entry = "base" THEN CharacterCaches ELSE {<<>>}
    /\ call = PendingCall("none", "q1", 0, CHOOSE e \in Envs : TRUE)
    /\ outcome = Returned(<<>>)
    /\ IdleChunk /\ IdleId /\ IdleDedup /\ IdleFormat /\ IdleEmbed /\ IdleRace /\ IdleIndex /\ IdleSession /\ IdleContext /\ IdleToc /\ IdleType

SearchCharacter ==
    /\ character_out = NoCharacterResult
    /\ character_call.entry = "base"
    /\ LET r == search_character(character_call.character_name, character_call.top_k,
                                 character_call.expand_variants, character_call.replies,
                                 character_call.fails_at, character_call.fails_in,
                                 _query_embed_cache)
       IN  /\ character_out' = [kind |-> r.kind, results |-> r.results,
                                searches |-> r.searches]
           /\ _query_embed_cache' = r.cache
    /\ UNCHANGED <<character_call, config, call, outcome, chunkVars, idVars, dedupVars, formatVars, embedVars, raceVars, indexVars, sessionVars, contextVars, tocVars, typeVars>>

StorySearchCharacter ==
    /\ character_out = NoCharacterResult
    /\ character_call.entry = "story"
    /\ LET r == story_search_character(character_call.character_name,
                                       character_call.top_k, character_call.replies)
       IN  character_out' = [kind |-> r.kind, results |-> r.results,
                             searches |-> r.searches]
    /\ UNCHANGED <<character_call, searchVars, chunkVars, idVars, dedupVars, formatVars, embedVars, raceVars, indexVars, sessionVars, contextVars, tocVars, typeVars>>

NextCharacter == SearchCharacter \/ StorySearchCharacter

SpecCharacter == InitCharacter /\ [][NextCharacter]_vars

----------------------------------------------------------------------------
\* format_search_results.  A result is a dict: a function whose domain is the
\* set of keys it carries.

Has(dict, key) == key \in DOMAIN dict

\* dict.get(key, default)
Get(dict, key, default) == IF Has(dict, key) THEN dict[key] ELSE default

pick_score_mut_final_first(result) ==
    IF Has(result, "final_score")
    THEN [relevance_score |-> result["final_score"], score_type |-> "final"]
    ELSE IF Has(result, "rerank_score")
    THEN [relevance_score |-> result["rerank_score"], score_type |-> "rerank"]
    ELSE IF Has(result, "distance")
    THEN [relevance_score |-> 10 - result["distance"], score_type |-> "vector_similarity"]
    ELSE [relevance_score |-> 10, score_type |-> "default"]

\* the if/elif chain; 1.0 is 10 tenths
pick_score(result) ==
    IF Has(result, "rerank_score")
    THEN [relevance_score |-> result["rerank_score"], score_type |-> "rerank"]
    ELSE IF Has(result, "final_score")
    THEN [relevance_score |-> result["final_score"], score_type |-> "final"]
    ELSE IF Has(result, "distance")
    THEN [relevance_score |-> 10 - result["distance"], score_type |-> "vector_similarity"]
    ELSE [relevance_score |-> 10, score_type |-> "default"]

\* the dict appended for one result
format_result(result) ==
    [file_path |-> result["metadata"]["file_path"],
     section_title |-> Get(result["metadata"], "section_title", ""),
     file_type |-> Get(result["metadata"], "file_type", ""),
     chunk_type |-> Get(result["metadata"], "chunk_type", ""),
     content |-> result["content"],
     relevance_score |-> pick_score(result).relevance_score,
     score_type |-> pick_score(result).score_type,
     original_distance |-> Get(result, "original_distance", None),
     rerank_score |-> Get(result, "rerank_score", None),
     final_score |-> Get(result, "final_score", None)]

format_search_results(results) == [i \in 1..Len(results) |-> format_result(results[i])]

\* a dict with the key, or without it
Optional(key, values) == {<<>>} \cup {key :> v : v \in values}

FormatMetadata ==
    {("file_path" :> "f") @@ ("chunk_type" :> "section") @@ t :
        t \in Optional("section_title", {"A"})}

\* results with every combination of the score keys
FormatResults ==
    {("content" :> "a") @@ ("metadata" :> m) @@ r @@ f @@ d @@ o :
        m \in FormatMetadata,
        r \in Optional("rerank_score", {9}),
        f \in Optional("final_score", {8}),
        d \in Optional("distance", {3}),
        o \in Optional("original_distance", {4})}

InitFormat ==
    /\ format_in \in SeqsUpTo(FormatResults, MaxFormatted)
    /\ format_out = NotFormatted
    /\ IdleSearch /\ IdleChunk /\ IdleId /\ IdleDedup /\ IdleCharacter /\ IdleEmbed /\ IdleRace /\ IdleIndex /\ IdleSession /\ IdleContext /\ IdleToc /\ IdleType

FormatSearchResults ==
    /\ ~format_out.done
    /\ format_out' = [done |-> TRUE, formatted |-> format_search_results(format_in),
                      results |-> format_in]
    /\ UNCHANGED <<format_in, searchVars, chunkVars, idVars, dedupVars, characterVars, embedVars, raceVars, indexVars, sessionVars, contextVars, tocVars, typeVars>>

NextFormat == FormatSearchResults

SpecFormat == InitFormat /\ [][NextFormat]_vars

----------------------------------------------------------------------------
\* get_embeddings_batch (OllamaModelInterface and StoryRAGSystem).  The
\* executor's threads start the submitted tasks in order, as many at a time as
\* max_workers allows, and finish them in any order; as_completed hands the
\* finished futures to the collecting loop in any order.  The same call is
\* made on the first class, then on the second.

EmbeddingClasses == {"base", "story"}

\* [0.0] * 768
EmbeddingDim == 768

ZeroVector == <<"zeros", EmbeddingDim>>

\* texts[i:i+batch_size], i counted from 0
batch_texts(texts, i, batch_size) == SubSeq(texts, i + 1, Min(i + batch_size, Len(texts)))

\* min(parallel_workers, len(batch_texts))
max_workers(parallel_workers, batch) == Min(parallel_workers, Len(batch))

result_slot_mut_completion_order(idx, n_collected) == n_collected

\* batch_embeddings[idx] = embedding
result_slot(idx, n_collected) == idx

\* StoryRAGSystem wraps future.result() in try/except; OllamaModelInterface does not
catches_failure(class) == class = "story"

CurrentBatch(run) == batch_texts(embed_call.texts, run.i, embed_call.batch_size)

\* does the embedding call of task idx of the current batch raise
TaskFails(run, idx) == (run.i + idx + 1) \in embed_call.fails

Running(class) == embed_run[class].pc \in {"batch", "unwinding"}

\* the second class is called when the first call is over
MayRun(class) == class = "base" \/ embed_run["base"].pc = "done"

\* for i in range(0, len(texts), batch_size): submit the batch
NextBatch ==
    \E class \in EmbeddingClasses :
      LET run == embed_run[class]
      IN  /\ MayRun(class)
          /\ run.pc = "loop"
          /\ run.i < Len(embed_call.texts)
          /\ embed_run' = [embed_run EXCEPT ![class] =
                  [run EXCEPT !.pc = "batch", !.next = 0, !.running = {}, !.finished = {},
                              !.collected = <<>>,
                              !.batch_embeddings = [k \in 1..Len(CurrentBatch(run)) |-> None]]]
          /\ UNCHANGED <<embed_call, searchVars, chunkVars, idVars, dedupVars, characterVars, formatVars, raceVars, indexVars, sessionVars, contextVars, tocVars, typeVars>>

\* a free thread takes the next submitted task
WorkerStart ==
    \E class \in EmbeddingClasses :
      LET run == embed_run[class]
      IN  /\ Running(class)
          /\ run.next < Len(CurrentBatch(run))
          /\ Cardinality(run.running) < max_workers(embed_call.parallel_workers,
                                                     CurrentBatch(run))
          /\ embed_run' = [embed_run EXCEPT ![class] =
                  [run EXCEPT !.running = @ \cup {run.next}, !.next = @ + 1]]
          /\ UNCHANGED <<embed_call, searchVars, chunkVars, idVars, dedupVars, characterVars, formatVars, raceVars, indexVars, sessionVars, contextVars, tocVars, typeVars>>

\* a get_embedding call comes back, or raises
WorkerFinish ==
    \E class \in EmbeddingClasses :
      LET run == embed_run[class]
      IN  /\ Running(class)
          /\ \E idx \in run.running :
              embed_run' = [embed_run EXCEPT ![class] =
                  [run EXCEPT !.running = @ \ {idx}, !.finished = @ \cup {idx}]]
          /\ UNCHANGED <<embed_call, searchVars, chunkVars, idVars, dedupVars, characterVars, formatVars, raceVars, indexVars, sessionVars, contextVars, tocVars, typeVars>>

\* for future in as_completed(...): future.result() and the store into the slot
Collect ==
    \E class \in EmbeddingClasses :
      LET run == embed_run[class]
      IN  /\ run.pc = "batch"
          /\ \E idx \in run.finished :
              LET slot == result_slot(idx, Len(run.collected)) + 1
                  text == embed_call.texts[run.i + idx + 1]
                  taken == [run EXCEPT !.finished = @ \ {idx},
                                       !.collected = Append(@, idx)]
              IN  embed_run' = [embed_run EXCEPT ![class] =
                      IF ~TaskFails(run, idx)
                      THEN [taken EXCEPT !.batch_embeddings[slot] = Embedding(text)]
                      ELSE IF catches_failure(class)
                      THEN [taken EXCEPT !.batch_embeddings[slot] = ZeroVector]
                      ELSE [taken EXCEPT !.pc = "unwinding"]]
          /\ UNCHANGED <<embed_call, searchVars, chunkVars, idVars, dedupVars, characterVars, formatVars, raceVars, indexVars, sessionVars, contextVars, tocVars, typeVars>>

\* all_embeddings.extend(batch_embeddings), once every future was collected
EndBatch ==
    \E class \in EmbeddingClasses :
      LET run == embed_run[class]
      IN  /\ run.pc = "batch"
          /\ Len(run.collected) = Len(CurrentBatch(run))
          /\ embed_run' = [embed_run EXCEPT ![class] =
                  [run EXCEPT !.pc = "loop", !.i = @ + embed_call.batch_size,
                              !.all_embeddings = @ \o run.batch_embeddings]]
          /\ UNCHANGED <<embed_call, searchVars, chunkVars, idVars, dedupVars, characterVars, formatVars, raceVars, indexVars, sessionVars, contextVars, tocVars, typeVars>>

\* return all_embeddings
ReturnEmbeddings ==
    \E class \in EmbeddingClasses :
      LET run == embed_run[class]
      IN  /\ MayRun(class)
          /\ run.pc = "loop"
          /\ run.i >= Len(embed_call.texts)
          /\ embed_run' = [embed_run EXCEPT ![class] =
                  [run EXCEPT !.pc = "done", !.outcome = "returned"]]
          /\ UNCHANGED <<embed_call, searchVars, chunkVars, idVars, dedupVars, characterVars, formatVars, raceVars, indexVars, sessionVars, contextVars, tocVars, typeVars>>

\* the exception of future.result() leaves the with block once the executor
\* has run every submitted task, and leaves get_embeddings_batch
RaiseEmbedding ==
    \E class \in EmbeddingClasses :
      LET run == embed_run[class]
      IN  /\ run.pc = "unwinding"
          /\ run.next = Len(CurrentBatch(run))
          /\ run.running = {}
          /\ embed_run' = [embed_run EXCEPT ![class] =
                  [run EXCEPT !.pc = "done", !.outcome = "raised"]]
          /\ UNCHANGED <<embed_call, searchVars, chunkVars, idVars, dedupVars, characterVars, formatVars, raceVars, indexVars, sessionVars, contextVars, tocVars, typeVars>>

EmbedTexts == {"t1", "t2"}

\* at most one embedding call of a batch call raises
EmbedCalls ==
    {c \in [texts : SeqsUpTo(EmbedTexts, MaxTexts), batch_size : 1..MaxBatchSize,
            parallel_workers : 1..MaxWorkers, fails : SUBSET (1..MaxTexts)] :
        /\ Cardinality(c.fails) <= 1
        /\ c.fails \subseteq 1..Len(c.texts)}

InitEmbed ==
    /\ embed_call \in EmbedCalls
    /\ embed_run = [class \in EmbeddingClasses |-> NewEmbedRun]
    /\ IdleSearch /\ IdleChunk /\ IdleId /\ IdleDedup /\ IdleCharacter /\ IdleFormat /\ IdleRace /\ IdleIndex /\ IdleSession /\ IdleContext /\ IdleToc /\ IdleType

NextEmbed ==
    \/ NextBatch
    \/ WorkerStart
    \/ WorkerFinish
    \/ Collect
    \/ EndBatch
    \/ ReturnEmbeddings
    \/ RaiseEmbedding

SpecEmbed == InitEmbed /\ [][NextEmbed]_vars

----------------------------------------------------------------------------
\* Concurrent searches on one BaseRAGSystem: the cache lines of _search_vector,
\* one statement at a time.  No lock guards them; a thread can be preempted
\* between any two statements.

\* self._query_embed_cache[query_key] = query_embedding
CacheSet(cache, key, value) ==
    IF CacheHas(cache, key)
    THEN [i \in 1..Len(cache) |->
            IF cache[i].key = key THEN [key |-> key, value |-> value] ELSE cache[i]]
    ELSE Append(cache, [key |-> key, value |-> value])

\* del self._query_embed_cache[key]
CacheDel(cache, key) == SelectSeq(cache, LAMBDA entry : entry.key # key)

\* ten entries of earlier searches, oldest first
EarlierQueries == <<"e01", "e02", "e03", "e04", "e05", "e06", "e07", "e08", "e09", "e10">>

FullCache == [i \in 1..CacheCapacity |-> CacheEntry(EarlierQueries[i])]

Moves(t, pc) == searchers' = [searchers EXCEPT ![t].pc = pc]

Ends(t, result) == searchers' = [searchers EXCEPT ![t].pc = "done", ![t].outcome = result]

\* if hasattr(self, '_query_embed_cache') and query_key in self._query_embed_cache
CheckCache ==
    \E t \in DOMAIN searchers :
        /\ searchers[t].pc = "check"
        /\ IF shared_cache.exists
              /\ CacheHas(shared_cache.entries, cache_key(searchers[t].query))
           THEN Moves(t, "read")
           ELSE Moves(t, "embed")
        /\ UNCHANGED shared_cache
        /\ UNCHANGED <<searchVars, chunkVars, idVars, dedupVars, characterVars, formatVars, embedVars, indexVars, sessionVars, contextVars, tocVars, typeVars>>

\* query_embedding = self._query_embed_cache[query_key]: KeyError if the key has gone
ReadCache ==
    \E t \in DOMAIN searchers :
        /\ searchers[t].pc = "read"
        /\ IF CacheHas(shared_cache.entries, cache_key(searchers[t].query))
           THEN Ends(t, "returned")
           ELSE Ends(t, "raised")
        /\ UNCHANGED shared_cache
        /\ UNCHANGED <<searchVars, chunkVars, idVars, dedupVars, characterVars, formatVars, embedVars, indexVars, sessionVars, contextVars, tocVars, typeVars>>

\* query_embedding = self.model_interface.get_embedding(query)
EmbedQuery ==
    \E t \in DOMAIN searchers :
        /\ searchers[t].pc = "embed"
        /\ Moves(t, "ensure")
        /\ UNCHANGED shared_cache
        /\ UNCHANGED <<searchVars, chunkVars, idVars, dedupVars, characterVars, formatVars, embedVars, indexVars, sessionVars, contextVars, tocVars, typeVars>>

\* if not hasattr(self, '_query_embed_cache')
EnsureCache ==
    \E t \in DOMAIN searchers :
        /\ searchers[t].pc = "ensure"
        /\ IF shared_cache.exists THEN Moves(t, "insert") ELSE Moves(t, "create")
        /\ UNCHANGED shared_cache
        /\ UNCHANGED <<searchVars, chunkVars, idVars, dedupVars, characterVars, formatVars, embedVars, indexVars, sessionVars, contextVars, tocVars, typeVars>>

\* the dict the attribute names now: the dicts it named before come first
CurrentDict == Len(shared_cache.discarded) + 1

\* the entries of a dict, which stay as they are once the attribute names another
DictEntries(dict) ==
    IF dict = CurrentDict THEN shared_cache.entries ELSE shared_cache.discarded[dict]

\* self._query_embed_cache = {}: a new dict takes the place of the one the
\* attribute named, if it named one
CreateCache ==
    \E t \in DOMAIN searchers :
        /\ searchers[t].pc = "create"
        /\ shared_cache' = [shared_cache EXCEPT
                !.exists = TRUE, !.entries = <<>>,
                !.discarded = IF shared_cache.exists THEN Append(@, shared_cache.entries)
                              ELSE @]
        /\ Moves(t, "insert")
        /\ UNCHANGED <<searchVars, chunkVars, idVars, dedupVars, characterVars, formatVars, embedVars, indexVars, sessionVars, contextVars, tocVars, typeVars>>

\* self._query_embed_cache[query_key] = query_embedding
InsertEntry ==
    \E t \in DOMAIN searchers :
        /\ searchers[t].pc = "insert"
        /\ shared_cache' = [shared_cache EXCEPT !.entries =
                CacheSet(@, cache_key(searchers[t].query), Embedding(searchers[t].query))]
        /\ Moves(t, "len")
        /\ UNCHANGED <<searchVars, chunkVars, idVars, dedupVars, characterVars, formatVars, embedVars, indexVars, sessionVars, contextVars, tocVars, typeVars>>

\* if len(self._query_embed_cache) > 10
CheckCapacity ==
    \E t \in DOMAIN searchers :
        /\ searchers[t].pc = "len"
        /\ IF Len(shared_cache.entries) > CacheCapacity
           THEN Moves(t, "oldest")
           ELSE Ends(t, "returned")
        /\ UNCHANGED shared_cache
        /\ UNCHANGED <<searchVars, chunkVars, idVars, dedupVars, characterVars, formatVars, embedVars, indexVars, sessionVars, contextVars, tocVars, typeVars>>

\* iter(self._query_embed_cache): the iterator holds the dict it was made from
\* and remembers its size
MakeIterator ==
    \E t \in DOMAIN searchers :
        /\ searchers[t].pc = "oldest"
        /\ searchers' = [searchers EXCEPT ![t].pc = "next",
                                          ![t].iter_dict = CurrentDict,
                                          ![t].iter_len = Len(shared_cache.entries)]
        /\ UNCHANGED shared_cache
        /\ UNCHANGED <<searchVars, chunkVars, idVars, dedupVars, characterVars, formatVars, embedVars, indexVars, sessionVars, contextVars, tocVars, typeVars>>

\* oldest_key = next(...), on the dict of the iterator, which is not the
\* attribute's if another thread has replaced it since iter(): RuntimeError if
\* that dict changed size since iter(), StopIteration if it is empty, else
\* its first key as it is now
PickOldest ==
    \E t \in DOMAIN searchers :
        /\ searchers[t].pc = "next"
        /\ LET entries == DictEntries(searchers[t].iter_dict)
           IN  IF Len(entries) # searchers[t].iter_len \/ entries = <<>>
               THEN searchers' = [searchers EXCEPT ![t].pc = "done", ![t].iter_dict = 0,
                                                   ![t].iter_len = 0,
                                                   ![t].outcome = "raised"]
               ELSE searchers' = [searchers EXCEPT ![t].pc = "delete", ![t].iter_dict = 0,
                                                   ![t].iter_len = 0,
                                                   ![t].oldest_key = entries[1].key]
        /\ UNCHANGED shared_cache
        /\ UNCHANGED <<searchVars, chunkVars, idVars, dedupVars, characterVars, formatVars, embedVars, indexVars, sessionVars, contextVars, tocVars, typeVars>>

\* del self._query_embed_cache[oldest_key]: KeyError if another thread deleted it
DeleteOldest ==
    \E t \in DOMAIN searchers :
        /\ searchers[t].pc = "delete"
        /\ IF CacheHas(shared_cache.entries, searchers[t].oldest_key)
           THEN /\ shared_cache' = [shared_cache EXCEPT !.entries =
                        CacheDel(@, searchers[t].oldest_key)]
                /\ Ends(t, "returned")
           ELSE /\ UNCHANGED shared_cache
                /\ Ends(t, "raised")
        /\ UNCHANGED <<searchVars, chunkVars, idVars, dedupVars, characterVars, formatVars, embedVars, indexVars, sessionVars, contextVars, tocVars, typeVars>>

\* a search that found no cache attribute at line 589 and has not yet run line 590
StalledSearcher(query) == [NewSearcher(query) EXCEPT !.pc = "create"]

\* a fresh instance; an instance whose cache ten earlier searches have filled;
\* and a fresh instance whose first search stopped before line 590 while ten
\* later searches created and filled the cache
InitRace ==
    /\ \/ /\ shared_cache = [exists |-> FALSE, entries |-> <<>>, discarded |-> <<>>,
                              initially |-> "absent"]
          /\ searchers \in [1..Threads -> {NewSearcher(q) : q \in Queries}]
       \/ /\ shared_cache = [exists |-> TRUE, entries |-> FullCache, discarded |-> <<>>,
                              initially |-> "full"]
          /\ searchers \in [1..Threads -> {NewSearcher(q) : q \in Queries}]
       \/ /\ shared_cache = [exists |-> TRUE, entries |-> FullCache, discarded |-> <<>>,
                              initially |-> "filled"]
          /\ searchers \in [1..Threads -> {NewSearcher(q) : q \in Queries}
                                            \cup {StalledSearcher("q1")}]
          /\ searchers[1] = StalledSearcher("q1")
          /\ \A t \in 2..Threads : searchers[t].pc = "check"
    /\ IdleSearch /\ IdleChunk /\ IdleId /\ IdleDedup /\ IdleCharacter /\ IdleFormat /\ IdleEmbed /\ IdleIndex /\ IdleSession /\ IdleContext /\ IdleToc /\ IdleType

NextRace ==
    \/ CheckCache
    \/ ReadCache
    \/ EmbedQuery
    \/ EnsureCache
    \/ CreateCache
    \/ InsertEntry
    \/ CheckCapacity
    \/ MakeIterator
    \/ PickOldest
    \/ DeleteOldest

SpecRace == InitRace /\ [][NextRace]_vars

----------------------------------------------------------------------------
\* Claims about the retrieval pipeline

SearchDone(entry) == call.entry = entry /\ outcome # Pending

\* C1: with reranking disabled, BaseRAGSystem.search returns exactly the first
\* min(top_k, n) of the n candidates the vector store returned, in the store's
\* ascending-distance order, nothing added, reordered or repeated, and never
\* more than top_k entries.
C1_NoRerankReturnsStorePrefix ==
    (SearchDone("base") /\ ~config.enable_rerank /\ outcome.kind = "returned") =>
        LET cands == call.trace.initial_results
            res == outcome.results
        IN  /\ Len(res) = Min(call.top_k, Len(cands))
            /\ Len(res) <= call.top_k
            /\ \A i \in 1..Len(res) : res[i] = cands[i]
            /\ \A i, j \in 1..Len(res) : i < j => res[i].distance <= res[j].distance

\* a search without rerank on a store holding more matches than asked for
C1_Witness ==
    /\ SearchDone("base") /\ ~config.enable_rerank /\ outcome.kind = "returned"
    /\ call.env.n_matches > call.top_k
    /\ Len(outcome.results) = call.top_k
    /\ Len(outcome.results) >= 2

\* C2: with reranking enabled, for any candidates and any scores the reranker
\* returns, the result has at most top_k entries, each a scored candidate, in
\* descending rerank_score with equal scores in vector-stage order, none below
\* the threshold, and every candidate at or above the threshold is present
\* unless top_k cut it.
C2_RerankedSortedStableFiltered ==
    (SearchDone("base") /\ config.enable_rerank /\ outcome.kind = "returned"
        /\ call.trace.rerank.called) =>
        LET cands == call.trace.initial_results
            scores == call.trace.rerank.scores
            m == Min(Len(cands), Len(scores))
            res == outcome.results
            Pos(r) == CHOOSE p \in 1..Len(cands) : cands[p].metadata = r.metadata
            Ahead(p, q) == scores[p] > scores[q] \/ (scores[p] = scores[q] /\ p < q)
        IN  /\ Len(res) <= call.top_k
            /\ \A i \in 1..Len(res) :
                \E p \in 1..m : /\ cands[p].metadata = res[i].metadata
                                /\ cands[p].content = res[i].content
                                /\ res[i].rerank_score = scores[p]
            /\ \A i, j \in 1..Len(res) : i < j => Ahead(Pos(res[i]), Pos(res[j]))
            /\ \A i \in 1..Len(res) : res[i].rerank_score >= config.score_threshold
            /\ \A p \in 1..m :
                scores[p] >= config.score_threshold =>
                    \/ \E i \in 1..Len(res) : Pos(res[i]) = p
                    \/ /\ Len(res) = call.top_k
                       /\ \A i \in 1..Len(res) : Ahead(Pos(res[i]), p)

\* a reranked result with a tie between two results and a candidate dropped by
\* the threshold
C2_Witness ==
    /\ SearchDone("base") /\ config.enable_rerank /\ call.trace.rerank.called
    /\ outcome.kind = "returned"
    /\ Len(outcome.results) >= 2
    /\ outcome.results[1].rerank_score = outcome.results[2].rerank_score
    /\ \E p \in 1..Len(call.trace.rerank.scores) :
        /\ p <= Len(call.trace.initial_results)
        /\ call.trace.rerank.scores[p] < config.score_threshold

\* C3: if the reranker returns a number of scores different from the number of
\* candidates passed to it, the search call fails with an error.
C3_ScoreCountMismatchFails ==
    (SearchDone("base") /\ call.trace.rerank.called /\ ~call.trace.rerank.raised
        /\ Len(call.trace.rerank.scores) # Len(call.trace.initial_results)) =>
        outcome.kind = "raised"

\* C4: when reranking is enabled and the reranker call raises (ollama has no
\* rerank interface, the call raises, or the response has neither 'scores' nor
\* 'results'), BaseRAGSystem.search raises and returns no candidates.
C4_RerankFailurePropagates ==
    (SearchDone("base") /\ config.enable_rerank /\ config.reranker_enabled
        /\ call.trace.initial_results # <<>>
        /\ call.env.response.kind \in {"no_interface", "raises", "unrecognised"}) =>
        /\ outcome.kind = "raised"
        /\ outcome.results = <<>>

\* the rerank service gave an unrecognised response for a non-empty candidate list
C4_Witness ==
    /\ SearchDone("base") /\ config.enable_rerank
    /\ Len(call.trace.initial_results) >= 2
    /\ call.env.response.kind = "unrecognised"
    /\ call.trace.rerank.called /\ call.trace.rerank.raised
    /\ outcome.kind = "raised"

\* C5: when the embedding service or the vector store raises during a search,
\* every search entry point surfaces a failure; a failed search is never
\* reported as a (necessarily empty) result list.
C5_CollaboratorFailureSurfaces ==
    (outcome # Pending /\ (call.trace.embed_raised \/ call.trace.store_raised)) =>
        outcome.kind = "raised"

----------------------------------------------------------------------------
\* Claims about the segmenters

SectionSegmenters == {"chunk_by_section", "story_chunk_by_section"}

ParagraphSegmenters == {"chunk_by_paragraph", "story_chunk_by_paragraph"}

Covers(c, l) == chunks[c].start_line <= l /\ l <= chunks[c].end_line

\* the chunk ranges, in output order, tile the lines from the first header to
\* the end of the document, and reach no line before the first header
HeaderRegionPartitioned ==
    LET hs == HeaderLines(content)
    IN  /\ \A l \in hs[1]..Len(content) :
            Cardinality({c \in 1..Len(chunks) : Covers(c, l)}) = 1
        /\ \A l \in 1..(hs[1] - 1) : \A c \in 1..Len(chunks) : ~Covers(c, l)
        /\ \A c \in 1..(Len(chunks) - 1) : chunks[c + 1].start_line = chunks[c].end_line + 1

\* no header is followed by a deeper one
LevelsNeverDeepen ==
    LET hs == HeaderLines(content)
    IN  \A k \in 1..(Len(hs) - 1) : content[hs[k + 1]].level <= content[hs[k]].level

\* C6 as claimed: for any document with a header of level 2 to 6, at any mix of
\* nesting levels, the line ranges of the by_section chunks exactly partition
\* the lines from the first header to the end of the document.
C6_SectionRangesPartition ==
    (segmenter = "chunk_by_section" /\ HeaderLines(content) # <<>>) =>
        HeaderRegionPartitioned

\* C6 as amended: the section of a header runs from the header to the line
\* before the next header of the same or a shallower level (or the last line).
\* by_section emits, in document order, one chunk for every header whose
\* section has a trimmed text longer than 20 characters and none for the
\* others; extract_sections_with_lines emits one range for every header.  Each
\* range is the section of its header, so no range reaches a line before the
\* first header, and two ranges are disjoint or the later lies inside the
\* earlier.  The ranges exactly partition the header-bearing region if and
\* only if no range lies inside another and the header line of every dropped
\* section lies inside some range; in particular they do when no header is
\* followed by a deeper one and no section is dropped.
C6_SectionRangesNestOrPartition ==
    (segmenter \in {"chunk_by_section", "extract_sections"}
        /\ HeaderLines(content) # <<>>) =>
        LET hs == HeaderLines(content)
            headers == {hs[k] : k \in 1..Len(hs)}
            Closes(l, h) == IsSectionHeader(content[l])
                                /\ content[l].level <= content[h].level
            SectionEndOf(h) ==
                LET closing == {l \in (h + 1)..Len(content) : Closes(l, h)}
                IN  IF closing = {} THEN Len(content)
                    ELSE (CHOOSE l \in closing : \A m \in closing : l <= m) - 1
            Dropped(h) ==
                /\ segmenter = "chunk_by_section"
                /\ StripLen(SubSeq(content, h, SectionEndOf(h))) <= MinSectionLen
            starts == [c \in 1..Len(chunks) |-> chunks[c].start_line]
            Nested == \E c, d \in 1..Len(chunks) :
                        /\ c < d
                        /\ chunks[c].start_line <= chunks[d].start_line
                        /\ chunks[d].end_line <= chunks[c].end_line
        IN  /\ starts = Ordered({h \in headers : ~Dropped(h)})
            /\ \A c \in 1..Len(chunks) :
                    chunks[c].end_line = SectionEndOf(chunks[c].start_line)
            /\ \A c \in 1..Len(chunks) : chunks[c].start_line >= hs[1]
            /\ \A c, d \in 1..Len(chunks) :
                c < d =>
                    /\ chunks[c].start_line < chunks[d].start_line
                    /\ \/ chunks[c].end_line < chunks[d].start_line
                       \/ chunks[d].end_line <= chunks[c].end_line
            /\ HeaderRegionPartitioned <=>
                    /\ ~Nested
                    /\ \A h \in headers :
                        Dropped(h) => \E c \in 1..Len(chunks) : Covers(c, h)
            /\ (LevelsNeverDeepen /\ Len(chunks) = Len(hs)) => HeaderRegionPartitioned

\* a kept section that holds a kept deeper section and a dropped one: the
\* lines of the deeper section lie in two chunks, the dropped header in one
C6_Witness ==
    /\ segmenter = "chunk_by_section"
    /\ Len(HeaderLines(content)) = 3
    /\ Len(chunks) = 2
    /\ chunks[1].start_line = HeaderLines(content)[1]
    /\ chunks[1].end_line = Len(content)
    /\ chunks[2].start_line = HeaderLines(content)[2]
    /\ chunks[2].end_line < HeaderLines(content)[3]
    /\ ~HeaderRegionPartitioned

\* C7: within the chunks of one document, by either strategy, chunk_index
\* values are pairwise distinct and strictly increasing in document order,
\* 0, 1, 2, ... for by_section, and for by_paragraph whatever the number of
\* paragraphs in a section.
C7_ChunkIndexStrictlyIncreasing ==
    (segmenter \in SectionSegmenters \cup ParagraphSegmenters) =>
        /\ \A i, j \in 1..Len(chunks) :
            i < j => chunks[i].chunk_index < chunks[j].chunk_index
        /\ segmenter \in SectionSegmenters =>
            \A i \in 1..Len(chunks) : chunks[i].chunk_index = i - 1

EmittedCore(c) == chunks[c].chunk_type \in {"section", "paragraph"}

\* C8: every section or paragraph chunk, in any variant of the
\* segmenter, has core text strictly longer than the threshold (20 characters
\* for sections, min_chunk_size for paragraphs).
C8_ChunksExceedMinimum ==
    (segmenter \in SectionSegmenters \cup ParagraphSegmenters) =>
        \A c \in 1..Len(chunks) :
            EmittedCore(c) =>
                /\ chunks[c].core_len > 0
                /\ chunks[c].core_len >
                    (IF chunks[c].chunk_type = "section" THEN MinSectionLen
                     ELSE MinChunkSize)

----------------------------------------------------------------------------
\* Claims about the chunk id

DifferInOne(s, t) ==
    \/ s.file_path # t.file_path /\ s.index = t.index /\ s.title = t.title
    \/ s.file_path = t.file_path /\ s.index # t.index /\ s.title = t.title
    \/ s.file_path = t.file_path /\ s.index = t.index /\ s.title # t.title

\* C9: _generate_chunk_id gives the same id for the same (file_path, index,
\* title), and a different id when exactly one of the three is changed (the
\* hash taken as collision-free).
C9_ChunkIdDependsOnEachInput ==
    ids.impl # "none" =>
        /\ id_args[1] = id_args[2] => ids.first = ids.second
        /\ DifferInOne(id_args[1], id_args[2]) => ids.first # ids.second

\* two calls that differ in the title alone, the path holding '_' and a digit
C9_Witness ==
    /\ ids.impl = "base"
    /\ id_args[1].file_path = <<"a", "_", "1">>
    /\ id_args[1].file_path = id_args[2].file_path
    /\ id_args[1].index = id_args[2].index
    /\ id_args[1].title # id_args[2].title
    /\ ids.first # ids.second

----------------------------------------------------------------------------
\* Claims about the de-duplication

\* C10: _deduplicate_results returns the first occurrence of each distinct
\* content, in input order: no two outputs share a content, every input
\* content appears, the output is no longer than the input, and a second pass
\* over the output changes nothing.
C10_DedupFirstSeenOrderPreserving ==
    dedup_out.done =>
        LET in == dedup_in
            out == dedup_out.results
            firsts == Ordered({i \in 1..Len(in) :
                        \A j \in 1..(i - 1) : in[j].content # in[i].content})
        IN  /\ Len(out) <= Len(in)
            /\ \A i, j \in 1..Len(out) : i # j => out[i].content # out[j].content
            /\ \A i \in 1..Len(in) : \E k \in 1..Len(out) : out[k].content = in[i].content
            /\ out = [k \in 1..Len(firsts) |-> in[firsts[k]]]
            /\ _deduplicate_results(out) = out

\* a list with a repeated content from another file, after a different one
C10_Witness ==
    /\ dedup_out.done
    /\ Len(dedup_in) >= 3
    /\ Len(dedup_out.results) = 2
    /\ dedup_in[1].content = dedup_in[3].content
    /\ dedup_in[1].metadata # dedup_in[3].metadata
    /\ dedup_in[2].content # dedup_in[1].content

----------------------------------------------------------------------------
\* Claims about search_character

CharacterReturned == character_out.kind = "returned"

\* top_k as the call resolved it: NoTopK where StoryRAGSystem got None
CharacterTopK ==
    IF character_call.top_k = LeftOut THEN CharacterDefaultTopK
    ELSE IF character_call.top_k = NoTopK /\ character_call.entry = "base"
    THEN CharacterDefaultTopK
    ELSE character_call.top_k

\* n results are no more than top_k; a top_k of None sets no limit
WithinTopK(n) == CharacterTopK = NoTopK \/ n <= CharacterTopK

\* everything the searches of the call returned, in the order they returned it
CharacterStream ==
    ExtendAll(character_out.searches, character_call.replies, Len(character_out.searches))

\* C11: with variant expansion on, a search_character call that returns has
\* issued exactly three searches per alias of the name, alias by alias and
\* template by template, each with top_k = 3 and the settings filter: 15 for a
\* name of a five-alias group, 3 on the name itself for a name outside the table.
C11_ThreeSearchesPerAlias ==
    (CharacterReturned /\ character_call.expand_variants) =>
        LET name == character_call.character_name
            aliases == _get_character_variants(name)
            searches == character_out.searches
            templates == <<"traits", "abilities", "dialogue">>
        IN  /\ Len(searches) = 3 * Len(aliases)
            /\ \A k \in 1..Len(searches) :
                /\ searches[k].variant = aliases[((k - 1) \div 3) + 1]
                /\ searches[k].template = templates[((k - 1) % 3) + 1]
                /\ searches[k].top_k = 3
                /\ searches[k].filter_type = SettingFilter
            /\ name \in {"xiao_1", "no_1"} => Len(searches) = 15
            /\ name \in {"yandere", "stranger"} =>
                /\ Len(searches) = 3
                /\ \A k \in 1..3 : searches[k].variant = name

\* a number name, which is not one of its own aliases: 15 searches
C11_Witness ==
    /\ CharacterReturned
    /\ character_call.entry = "base"
    /\ character_call.expand_variants
    /\ character_call.character_name = "no_1"
    /\ Len(character_out.searches) = 15
    /\ character_out.searches[4].variant = "lww_1"

\* the results are at most top_k, no two share a content, compendium results
\* come first, and each group keeps the order of first return
DedupedCompendiumFirst ==
    LET out == character_out.results
        stream == CharacterStream
        first(c) == CHOOSE i \in 1..Len(stream) :
                        /\ stream[i].content = c
                        /\ \A j \in 1..(i - 1) : stream[j].content # c
        compendium(r) == \E i \in 1..Len(r.metadata.file_path) :
                            r.metadata.file_path[i] = "compendium"
    IN  /\ WithinTopK(Len(out))
        /\ \A i, j \in 1..Len(out) : i # j => out[i].content # out[j].content
        /\ \A i, j \in 1..Len(out) :
            i < j =>
                /\ ~(~compendium(out[i]) /\ compendium(out[j]))
                /\ compendium(out[i]) = compendium(out[j]) =>
                    first(out[i].content) < first(out[j].content)
        /\ \A i \in 1..Len(out) :
            /\ \E j \in 1..Len(stream) : stream[j].content = out[i].content
            /\ out[i] = stream[first(out[i].content)]

\* C12 as claimed: every search_character call that returns gives at most
\* top_k results, no two with identical content, the compendium results
\* before all others, each group in the order of first return.
C12_CharacterResultsDedupedCompendiumFirst ==
    CharacterReturned => DedupedCompendiumFirst

\* C12 as amended: that holds for StoryRAGSystem.search_character and for
\* BaseRAGSystem.search_character with variant expansion on, where the result
\* is also as long as top_k and the distinct contents allow.  top_k is the
\* caller's number; left out, or None in BaseRAGSystem, it is 3; None in
\* StoryRAGSystem is no limit, and the call returns every distinct content.
\* With expansion off BaseRAGSystem.search_character issues one search and
\* returns its result as it is, cut to top_k but neither de-duplicated nor
\* partitioned.
C12_ExpandedResultsDedupedCompendiumFirst ==
    CharacterReturned =>
        IF character_call.expand_variants
        THEN LET distinct == Cardinality({CharacterStream[i].content :
                                            i \in 1..Len(CharacterStream)})
             IN  /\ DedupedCompendiumFirst
                 /\ Len(character_out.results) =
                        IF CharacterTopK = NoTopK THEN distinct
                        ELSE Min(CharacterTopK, distinct)
        ELSE /\ Len(character_out.searches) = 1
             /\ character_out.searches[1].top_k = CharacterTopK
             /\ character_out.results = CharacterStream
             /\ Len(character_out.results) <= CharacterTopK

\* a compendium result returned after another result is moved ahead of it
C12_Witness ==
    /\ CharacterReturned
    /\ character_call.expand_variants
    /\ Len(character_out.results) >= 2
    /\ ~PathContains(CharacterStream[1].metadata.file_path, CompendiumMarker)
    /\ PathContains(character_out.results[1].metadata.file_path, CompendiumMarker)
    /\ character_out.results[2] = CharacterStream[1]

----------------------------------------------------------------------------
\* Claims about format_search_results

\* C13: the formatter gives one record per result, in order, whose
\* relevance_score and score_type follow the precedence rerank_score, then
\* final_score, then 1 - distance, then the default 1.0; the results handed in
\* are left as they were.
C13_FormatScorePrecedence ==
    format_out.done =>
        /\ Len(format_out.formatted) = Len(format_in)
        /\ format_out.results = format_in
        /\ \A i \in 1..Len(format_in) :
            LET r == format_in[i]
                f == format_out.formatted[i]
            IN  /\ f.content = r["content"]
                /\ f.file_path = r["metadata"]["file_path"]
                /\ "rerank_score" \in DOMAIN r =>
                    f.score_type = "rerank" /\ f.relevance_score = r["rerank_score"]
                /\ ("rerank_score" \notin DOMAIN r /\ "final_score" \in DOMAIN r) =>
                    f.score_type = "final" /\ f.relevance_score = r["final_score"]
                /\ ({"rerank_score", "final_score"} \cap DOMAIN r = {}
                        /\ "distance" \in DOMAIN r) =>
                    f.score_type = "vector_similarity"
                        /\ f.relevance_score = 10 - r["distance"]
                /\ {"rerank_score", "final_score", "distance"} \cap DOMAIN r = {} =>
                    f.score_type = "default" /\ f.relevance_score = 10

\* a result carrying all three scores, then one carrying none
C13_Witness ==
    /\ format_out.done
    /\ Len(format_in) = 2
    /\ {"rerank_score", "final_score", "distance"} \subseteq DOMAIN format_in[1]
    /\ {"rerank_score", "final_score", "distance"} \cap DOMAIN format_in[2] = {}
    /\ format_out.formatted[1].score_type = "rerank"
    /\ format_out.formatted[2].score_type = "default"

----------------------------------------------------------------------------
\* Claims about get_embeddings_batch

\* the list holds, at every position, the embedding of the text at that
\* position, or the zero vector where the embedding call raised
OwnEmbeddings(all_embeddings) ==
    /\ Len(all_embeddings) = Len(embed_call.texts)
    /\ \A p \in 1..Len(embed_call.texts) :
        all_embeddings[p] = IF p \in embed_call.fails THEN <<"zeros", 768>>
                            ELSE <<"embedding", embed_call.texts[p]>>

\* C14: whatever the batch size and the order in which the embedding calls
\* complete, a get_embeddings_batch call that returns gives a list as long as
\* its input, in which position i holds the embedding of texts[i] (for every
\* text whose embedding call did not raise).
C14_EmbeddingsKeepInputOrder ==
    \A class \in EmbeddingClasses :
        embed_run[class].outcome = "returned" =>
            /\ Len(embed_run[class].all_embeddings) = Len(embed_call.texts)
            /\ \A p \in 1..Len(embed_call.texts) :
                p \notin embed_call.fails =>
                    embed_run[class].all_embeddings[p] = <<"embedding", embed_call.texts[p]>>

\* two different texts of one batch, the second collected before the first
C14_Witness ==
    /\ embed_run["base"].outcome = "returned"
    /\ embed_call.batch_size >= 2
    /\ Len(embed_call.texts) = 2
    /\ embed_call.texts[1] # embed_call.texts[2]
    /\ embed_run["base"].collected = <<1, 0>>
    /\ embed_run["base"].all_embeddings[1] = <<"embedding", embed_call.texts[1]>>

BothEmbedCallsOver ==
    \A class \in EmbeddingClasses : embed_run[class].pc = "done"

\* C15: when one item's embedding call raises, each implementation
\* either fails the whole call or returns the full list with the zero vector
\* at exactly the failing positions, and both implementations do the same.
C15_SameFailurePolicy ==
    (BothEmbedCallsOver /\ embed_call.fails # {}) =>
        /\ \A class \in EmbeddingClasses :
            \/ embed_run[class].outcome = "raised"
            \/ /\ embed_run[class].outcome = "returned"
               /\ OwnEmbeddings(embed_run[class].all_embeddings)
        /\ embed_run["base"].outcome = embed_run["story"].outcome

\* what each implementation does by itself: OllamaModelInterface fails the
\* whole call when an item's embedding call raises, StoryRAGSystem returns the
\* full list with the zero vector at exactly the failing positions
FailurePolicyPerImplementation ==
    /\ embed_run["base"].pc = "done" =>
        IF embed_call.fails # {}
        THEN embed_run["base"].outcome = "raised"
        ELSE /\ embed_run["base"].outcome = "returned"
             /\ OwnEmbeddings(embed_run["base"].all_embeddings)
    /\ embed_run["story"].pc = "done" =>
        /\ embed_run["story"].outcome = "returned"
        /\ OwnEmbeddings(embed_run["story"].all_embeddings)

----------------------------------------------------------------------------
\* Claims about concurrent searches

AllSearchersDone == \A t \in DOMAIN searchers : searchers[t].pc = "done"

NoSearcherRaised == \A t \in DOMAIN searchers : searchers[t].outcome # "raised"

\* with room for every query, each finished search has left its entry
NoEntryLost ==
    (AllSearchersDone /\ shared_cache.initially = "absent") =>
        \A t \in DOMAIN searchers :
            \E i \in 1..Len(shared_cache.entries) :
                shared_cache.entries[i].key = cache_key(searchers[t].query)

WithinCapacityAtRest == AllSearchersDone => Len(shared_cache.entries) <= 10

\* C16: when several searches run at once on one instance, the cache's check,
\* insert and evict steps behave atomically: no search fails while reading or
\* evicting, no inserted entry is lost to another search re-creating the
\* cache, and once all searches are over the cache holds at most 10 entries.
C16_CacheStepsAtomic ==
    /\ NoSearcherRaised
    /\ NoEntryLost
    /\ WithinCapacityAtRest

----------------------------------------------------------------------------
\* StoryRAGSystem.index_documents: the document tree is walked file by file,
\* the chunks of all files are gathered, then embedded and stored 50 at a time.
\* The vector store is a collaborator: whether delete_collection or add raises
\* is its choice at the moment of the call.

\* storage_batch_size = 50
storage_batch_size == 50

\* what stops a file from giving chunks: its path has an ignore pattern or its
\* name starts with '.' ("ignored"), open/read/decoding raises ("read"), the
\* segmenter raises ("segment")
DocumentFaults == {"ignored", "read", "segment"}

\* the numbers of chunks the segmenter makes of a file
ChunkCounts == {0, 1, 50}

MarkdownFiles ==
    {[fault |-> "none", chunks |-> n] : n \in ChunkCounts}
        \cup {[fault |-> f, chunks |-> 1] : f \in DocumentFaults}

\* the k-th file of project_root.glob("**/*.md")
DocumentPath(k) == <<"d">> \o Digits(k)

ChunkTitle == <<"t">>

\* DocumentChunk(chunk_id, content, metadata) number j of file k
DocumentChunk(k, j) ==
    [chunk_id |-> story_generate_chunk_id(DocumentPath(k), j, ChunkTitle),
     content |-> <<"text", k, j>>]

\* with open(...) as f: content = f.read(); chunks = self.chunk_by_...(content, file_path)
file_chunks(k, document) ==
    IF document.fault = "none"
    THEN [j \in 1..document.chunks |-> DocumentChunk(k, j - 1)]
    ELSE <<>>

collect_file_mut_fault_drops_all(all_chunks, k, document) ==
    IF document.fault \in {"read", "segment"} THEN <<>>
    ELSE all_chunks \o file_chunks(k, document)

\* the body of "for file_path in filtered_files": all_chunks.extend(chunks),
\* or the except branch that prints and goes on
collect_file(all_chunks, k, document) ==
    all_chunks \o file_chunks(k, document)

\* records left by an earlier indexing of another state of the tree: one whose
\* id the tree no longer produces (a section since retitled) and one with the
\* id of the first chunk of the first file but that file's former text
OrphanRecord ==
    [chunk_id |-> story_generate_chunk_id(DocumentPath(1), 0, <<"o">>),
     content |-> <<"old", 1, 0>>]

OutdatedRecord ==
    [chunk_id |-> story_generate_chunk_id(DocumentPath(1), 0, ChunkTitle),
     content |-> <<"old", 1, 0>>]

StoredIds(records) == {r.chunk_id : r \in records}

\* self.collection.add(ids=ids, embeddings=embeddings, documents=contents,
\* metadatas=metadatas) when it does not raise: add is no upsert, a record
\* whose id the collection already holds stays as it is
collection_add(records, batch) ==
    records \cup {batch[n] : n \in {m \in 1..Len(batch) :
                                      batch[m].chunk_id \notin StoredIds(records)}}

\* batch = all_chunks[i:i+storage_batch_size]
storage_batch(all_chunks, i) ==
    SubSeq(all_chunks, i + 1, Min(i + storage_batch_size, Len(all_chunks)))

IndexEnds(result, report) ==
    index_run' = [index_run EXCEPT !.pc = "done", !.outcome = result, !.reported = report]

collection_count_mut_always_empty(records) == 0

\* self.collection.count()
collection_count(records) == Cardinality(records)

\* if force_reindex: delete_collection inside try/except: pass, then
\* get_or_create_collection; elif self.collection.count() > 0: return
PrepareCollection ==
    /\ index_run.pc = "called"
    /\ IF index_call.force_reindex
       THEN /\ \E delete_raises \in BOOLEAN :
                 collection' = IF delete_raises THEN collection ELSE {}
            /\ index_run' = [index_run EXCEPT !.pc = "files", !.file = 1]
       ELSE IF collection_count(collection) > 0
       THEN /\ IndexEnds("returned", "exists")
            /\ UNCHANGED collection
       ELSE /\ index_run' = [index_run EXCEPT !.pc = "files", !.file = 1]
            /\ UNCHANGED collection
    /\ UNCHANGED index_call
    /\ UNCHANGED <<searchVars, chunkVars, idVars, dedupVars, characterVars, formatVars, embedVars, raceVars, sessionVars, contextVars, tocVars, typeVars>>

\* one turn of the loops over md_files and filtered_files
ProcessFile ==
    /\ index_run.pc = "files"
    /\ index_run.file <= Len(index_call.documents)
    /\ index_run' = [index_run EXCEPT
            !.all_chunks = collect_file(@, index_run.file, index_call.documents[index_run.file]),
            !.file = @ + 1]
    /\ UNCHANGED <<index_call, collection>>
    /\ UNCHANGED <<searchVars, chunkVars, idVars, dedupVars, characterVars, formatVars, embedVars, raceVars, sessionVars, contextVars, tocVars, typeVars>>

\* if not all_chunks: return
CheckChunks ==
    /\ index_run.pc = "files"
    /\ index_run.file > Len(index_call.documents)
    /\ IF index_run.all_chunks = <<>>
       THEN IndexEnds("returned", "no_content")
       ELSE index_run' = [index_run EXCEPT !.pc = "store", !.i = 0]
    /\ UNCHANGED <<index_call, collection>>
    /\ UNCHANGED <<searchVars, chunkVars, idVars, dedupVars, characterVars, formatVars, embedVars, raceVars, sessionVars, contextVars, tocVars, typeVars>>

\* one turn of "for i in range(0, len(all_chunks), storage_batch_size)": the
\* batch is embedded (StoryRAGSystem.get_embeddings_batch does not raise) and
\* added inside try/except Exception, which prints and goes on
StoreBatch ==
    /\ index_run.pc = "store"
    /\ index_run.i < Len(index_run.all_chunks)
    /\ \E add_raises \in BOOLEAN :
          /\ collection' =
                IF add_raises THEN collection
                ELSE collection_add(collection, storage_batch(index_run.all_chunks, index_run.i))
          /\ index_run' = [index_run EXCEPT
                !.failed_batches = IF add_raises THEN @ \cup {index_run.i} ELSE @,
                !.embedding_calls = @ + 1,
                !.i = @ + storage_batch_size]
    /\ UNCHANGED index_call
    /\ UNCHANGED <<searchVars, chunkVars, idVars, dedupVars, characterVars, formatVars, embedVars, raceVars, sessionVars, contextVars, tocVars, typeVars>>

\* print(f"索引完成！共索引 {len(all_chunks)} 个文档切片")
FinishIndex ==
    /\ index_run.pc = "store"
    /\ index_run.i >= Len(index_run.all_chunks)
    /\ IndexEnds("returned", "complete")
    /\ UNCHANGED <<index_call, collection>>
    /\ UNCHANGED <<searchVars, chunkVars, idVars, dedupVars, characterVars, formatVars, embedVars, raceVars, sessionVars, contextVars, tocVars, typeVars>>

\* index_documents is called once more on the same instance and the same tree
IndexAgain ==
    /\ index_run.pc = "done"
    /\ index_run.round = "first"
    /\ \E force_reindex \in BOOLEAN :
          index_call' = [index_call EXCEPT !.force_reindex = force_reindex]
    /\ index_run' = [NoIndexRun EXCEPT !.pc = "called", !.round = "again",
                                        !.before = collection]
    /\ UNCHANGED collection
    /\ UNCHANGED <<searchVars, chunkVars, idVars, dedupVars, characterVars, formatVars, embedVars, raceVars, sessionVars, contextVars, tocVars, typeVars>>

DocumentTrees == UNION {[1..n -> MarkdownFiles] : n \in 1..MaxIndexDocs}

InitIndex ==
    /\ index_call \in [force_reindex : BOOLEAN, documents : DocumentTrees]
    /\ collection \in {{}, {OrphanRecord, OutdatedRecord}}
    /\ index_run = [NoIndexRun EXCEPT !.pc = "called", !.round = "first",
                                       !.before = collection]
    /\ IdleSearch /\ IdleChunk /\ IdleId /\ IdleDedup /\ IdleCharacter /\ IdleFormat /\ IdleEmbed /\ IdleRace /\ IdleSession /\ IdleContext /\ IdleToc /\ IdleType

NextIndex ==
    \/ PrepareCollection
    \/ ProcessFile
    \/ CheckChunks
    \/ StoreBatch
    \/ FinishIndex
    \/ IndexAgain

SpecIndex == InitIndex /\ [][NextIndex]_vars

----------------------------------------------------------------------------
\* Claims about index_documents

IndexDone == index_run.pc = "done"

\* the chunks of the files of the tree that are read and segmented, in the
\* order of the tree
RECURSIVE TreeChunks(_, _)
TreeChunks(documents, k) ==
    IF k = 0 THEN <<>>
    ELSE TreeChunks(documents, k - 1)
            \o (IF documents[k].fault = "none"
                THEN [j \in 1..documents[k].chunks |-> DocumentChunk(k, j - 1)]
                ELSE <<>>)

CurrentChunks == TreeChunks(index_call.documents, Len(index_call.documents))

\* the value of i in the turn of the storage loop that handles position n
BatchOf(n) == ((n - 1) \div storage_batch_size) * storage_batch_size

HasFailingFile ==
    \E k \in 1..Len(index_call.documents) :
        index_call.documents[k].fault \in {"read", "segment"}

\* C17: a file of the tree that cannot be read or decoded, or whose
\* segmentation raises, is skipped by index_documents: the call returns to its
\* caller without raising, the chunks it gathered are those of all the other
\* files, in order, and every one of them that belongs to a batch the store
\* accepted is in the collection.
C17_FailingDocumentSkipped ==
    (IndexDone /\ HasFailingFile) =>
        /\ index_run.outcome = "returned"
        /\ index_run.reported # "exists" => index_run.all_chunks = CurrentChunks
        /\ index_run.reported = "complete" =>
              \A n \in 1..Len(CurrentChunks) :
                  BatchOf(n) \notin index_run.failed_batches
                      => CurrentChunks[n].chunk_id \in StoredIds(collection)

\* a first file that fails and a second whose chunk was stored all the same,
\* and a run that went on past a file whose segmentation raised
C17_Witness ==
    /\ IndexDone
    /\ index_run.reported = "complete"
    /\ Len(index_call.documents) = 2
    /\ index_call.documents[1].fault \in {"read", "segment"}
    /\ index_call.documents[2].fault = "none"
    /\ DocumentChunk(2, 0) \in collection

\* C18: when index_documents(force_reindex=True) has completed, the collection
\* holds exactly the chunks of the current document tree: no record stored
\* before the call is left and every current chunk is stored with its content
\* (so that a second forced run over the same tree gives the same records).
C18_ForcedReindexReplacesCollection ==
    (IndexDone /\ index_call.force_reindex) =>
        collection = {CurrentChunks[n] : n \in 1..Len(CurrentChunks)}

\* C19: when the vector store raises while a batch is stored, the failure
\* reaches the caller of index_documents: no call ends normally, reporting the
\* index complete, while the chunks of a batch are missing from the collection.
C19_StoreFailurePropagates ==
    /\ (IndexDone /\ index_run.failed_batches # {}) => index_run.outcome = "raised"
    /\ (IndexDone /\ index_run.reported = "complete") =>
          \A n \in 1..Len(CurrentChunks) :
              CurrentChunks[n].chunk_id \in StoredIds(collection)

----------------------------------------------------------------------------
\* Searches made one after another on one BaseRAGSystem: the query-embedding
\* cache block of _search_vector. A query is named by the number of queries
\* embedded before it was first embedded (1, 2, 3, ...). The embedding service
\* may answer the same query differently each time: its answer carries the
\* number of times the query has been embedded.

ServiceEmbedding(query, version) == <<"embedding", query, version>>

ServiceRaises == <<"raises">>

\* lines 583-594: the embedding the search uses, the cache it leaves, and the
\* calls it made to the embedding service
cached_embedding(cache, query, reply) ==
    LET key == cache_key(query)
    IN  IF CacheHas(cache, key)
        THEN [kind |-> "hit", query_embedding |-> CacheGet(cache, key),
              cache |-> cache, embedding_calls |-> 0]
        ELSE IF reply = ServiceRaises
        THEN [kind |-> "raised", query_embedding |-> <<>>,
              cache |-> cache, embedding_calls |-> 1]
        ELSE [kind |-> "miss", query_embedding |-> reply,
              cache |-> CachePut(cache, key, reply), embedding_calls |-> 1]

\* how often the service has embedded the query
Fetched(fetches, query) == IF query <= Len(fetches) THEN fetches[query] ELSE 0

\* one search: of a query embedded before, or of a new one
SessionSearch ==
    \E query \in 1..(Len(session_search.fetches) + 1) :
    \E reply \in {ServiceRaises,
                  ServiceEmbedding(query, Fetched(session_search.fetches, query) + 1)} :
        LET found == cached_embedding(_query_embed_cache, query, reply)
        IN  /\ session_search.calls + found.embedding_calls <= MaxEmbeddingCalls
            /\ _query_embed_cache' = found.cache
            /\ session_search' =
                  [calls |-> session_search.calls + found.embedding_calls,
                   fetches |-> IF found.kind # "miss" THEN session_search.fetches
                               ELSE IF query > Len(session_search.fetches)
                               THEN Append(session_search.fetches, 1)
                               ELSE [session_search.fetches EXCEPT ![query] = @ + 1],
                   query |-> query,
                   kind |-> found.kind,
                   embedding_calls |-> found.embedding_calls,
                   query_embedding |-> found.query_embedding,
                   before |-> _query_embed_cache]
            /\ UNCHANGED <<config, call, outcome>>
            /\ UNCHANGED <<chunkVars, idVars, dedupVars, characterVars, formatVars, embedVars, raceVars, indexVars, contextVars, tocVars, typeVars>>

InitSession ==
    /\ IdleSearch /\ IdleChunk /\ IdleId /\ IdleDedup /\ IdleCharacter /\ IdleFormat /\ IdleEmbed /\ IdleRace /\ IdleIndex /\ IdleContext /\ IdleToc /\ IdleType
    /\ session_search = NoSessionSearch

NextSession == SessionSearch

SpecSession == InitSession /\ [][NextSession]_vars

----------------------------------------------------------------------------
\* Claims about the query-embedding cache under sequential searches

\* the query of the latest search was in the cache when the search began
WasCached ==
    \E i \in 1..Len(session_search.before) :
        session_search.before[i].key = cache_key(session_search.query)

LatestEntry ==
    [key |-> cache_key(session_search.query), value |-> session_search.query_embedding]

\* C20: over searches made one after another on one instance the cache is a
\* first-in-first-out cache of capacity 10: it never holds more than 10
\* entries; a search whose query is cached calls the embedding service not at
\* all, uses the embedding stored for that query and leaves the cache, order
\* included, as it was; a search that embeds a new query appends its entry,
\* and when the cache was full drops the entry inserted earliest, never the
\* new one.
C20_CacheIsFifoOfCapacityTen ==
    /\ Len(_query_embed_cache) <= CacheCapacity
    /\ (session_search.kind # "none" /\ WasCached) =>
          /\ session_search.embedding_calls = 0
          /\ \E i \in 1..Len(session_search.before) :
                /\ session_search.before[i].key = cache_key(session_search.query)
                /\ session_search.before[i].value = session_search.query_embedding
          /\ _query_embed_cache = session_search.before
    /\ (session_search.kind = "miss" /\ Len(session_search.before) < CacheCapacity) =>
          _query_embed_cache = Append(session_search.before, LatestEntry)
    /\ (session_search.kind = "miss" /\ Len(session_search.before) = CacheCapacity) =>
          _query_embed_cache = Append(Tail(session_search.before), LatestEntry)

\* a search of an eleventh query found ten entries, and the first of them has
\* gone while the new entry is the last
C20_Witness ==
    /\ session_search.kind = "miss"
    /\ Len(session_search.before) = CacheCapacity
    /\ Len(session_search.fetches) > CacheCapacity
    /\ ~CacheHas(_query_embed_cache, session_search.before[1].key)
    /\ _query_embed_cache[CacheCapacity] = LatestEntry

----------------------------------------------------------------------------
\* Claims about the titles, the line numbers and the context of the chunks

\* the nearest header before header idx of a strictly lower level (0: none)
ParentHeader(lines, headers, idx) ==
    LET above == {j \in 1..(idx - 1) :
                    lines[headers[j]].level < lines[headers[idx]].level}
    IN  IF above = {} THEN 0 ELSE CHOOSE j \in above : \A k \in above : k <= j

\* the titles of the ancestors of header idx, outermost first, then its own
RECURSIVE AncestorChain(_, _, _)
AncestorChain(lines, headers, idx) ==
    IF ParentHeader(lines, headers, idx) = 0 THEN <<lines[headers[idx]].title>>
    ELSE AncestorChain(lines, headers, ParentHeader(lines, headers, idx))
            \o <<lines[headers[idx]].title>>

\* the title the section that starts at a header line is to carry
HierarchicalTitle(lines, start_line) ==
    LET headers == HeaderLines(lines)
        idx == CHOOSE i \in 1..Len(headers) : headers[i] = start_line
    IN  JoinTitles(AncestorChain(lines, headers, idx))

TitleOf(c) ==
    IF segmenter = "extract_sections" THEN chunks[c].title ELSE chunks[c].section_title

\* C21: every section made from a header carries as its title the titles of
\* its ancestors (the nearest preceding header of a strictly lower level, then
\* the nearest before that of a still lower level, ...), outermost first, and
\* then its own, joined by " > "; a header with no shallower predecessor keeps
\* its own title alone.
C21_SectionTitleIsAncestorChain ==
    segmenter \in {"extract_sections", "chunk_by_section"} =>
        \A c \in 1..Len(chunks) :
            IsSectionHeader(content[chunks[c].start_line]) =>
                TitleOf(c) = HierarchicalTitle(content, chunks[c].start_line)

\* the part of C21 that extract_sections_with_lines meets
ExtractedTitleIsAncestorChain ==
    segmenter = "extract_sections" =>
        \A c \in 1..Len(chunks) :
            IsSectionHeader(content[chunks[c].start_line]) =>
                chunks[c].title = HierarchicalTitle(content, chunks[c].start_line)

\* C22: for every paragraph chunk, start_line and end_line are the document's
\* line numbers of the first and the last line of its paragraph: the lines
\* start_line..end_line exist and hold exactly the text of the chunk's core.
C22_ParagraphLineNumbersAccurate ==
    segmenter \in ParagraphSegmenters =>
        \A c \in 1..Len(chunks) :
            chunks[c].chunk_type = "paragraph" =>
                /\ 1 <= chunks[c].start_line
                /\ chunks[c].start_line <= chunks[c].end_line
                /\ chunks[c].end_line <= Len(content)
                /\ StripLen(SubSeq(content, chunks[c].start_line, chunks[c].end_line))
                      = chunks[c].core_len

\* no two empty lines follow each other in the document
SingleBlankLines ==
    \A i \in 1..(Len(content) - 1) : ~(content[i].len = 0 /\ content[i + 1].len = 0)

\* the part of C22 the segmenters meet: paragraphs separated by one empty line
ParagraphLineNumbersAccurateSingleBlank ==
    SingleBlankLines => C22_ParagraphLineNumbersAccurate

----------------------------------------------------------------------------
\* BaseRAGSystem._add_context and the loop of chunk_by_paragraph that calls
\* it, on the paragraphs of one section written out character by character.

IsSpace(ch) == ch \in {" ", "\n"}

\* str.strip()
strip(s) ==
    LET full == {i \in 1..Len(s) : ~IsSpace(s[i])}
    IN  IF full = {} THEN <<>>
        ELSE SubSeq(s, CHOOSE i \in full : \A j \in full : i <= j,
                       CHOOSE i \in full : \A j \in full : i >= j)

\* s.count('\n')
count_newlines(s) == Cardinality({i \in 1..Len(s) : s[i] = "\n"})

\* s[-n:] for n >= 0: the last n characters, and the whole of s when n = 0
last_chars(s, n) ==
    IF n = 0 THEN s ELSE SubSeq(s, Max(1, Len(s) - n + 1), Len(s))

\* s[:n] for n >= 0
first_chars(s, n) == SubSeq(s, 1, Min(n, Len(s)))

\* "[上文]..." and "[下文]", each written as one character
LeadingMarker == <<"[prev]...">>

TrailingMarker == <<"[next]">>

_add_context(main_para, all_paragraphs, para_idx, add_context, context_chars) ==
    IF ~add_context THEN strip(main_para)
    ELSE
    LET result == strip(main_para)
        prev_para == strip(all_paragraphs[para_idx])
        with_prev ==
            IF para_idx > 0 /\ prev_para # <<>>
            THEN LeadingMarker
                    \o (IF Len(prev_para) > context_chars
                        THEN last_chars(prev_para, context_chars) ELSE prev_para)
                    \o <<"\n", "\n">> \o result
            ELSE result
        next_para == strip(all_paragraphs[para_idx + 2])
    IN  IF para_idx < Len(all_paragraphs) - 1 /\ next_para # <<>>
        THEN with_prev \o <<"\n", "\n">> \o TrailingMarker
                \o (IF Len(next_para) > context_chars
                    THEN first_chars(next_para, context_chars) ELSE next_para)
                \o <<".", ".", ".">>
        ELSE with_prev

\* the loop "for para_idx, para in enumerate(paragraphs)" of one section that
\* starts at line 1: para_start_line moves on by para.count('\n') + 2 for
\* every paragraph, kept or dropped
RECURSIVE section_paragraph_chunks(_, _, _, _)
section_paragraph_chunks(section, para_idx, start_line, acc) ==
    IF para_idx >= Len(section.all_paragraphs) THEN acc
    ELSE LET para == section.all_paragraphs[para_idx + 1]
             para_end_line == start_line + count_newlines(para)
         IN  section_paragraph_chunks(section, para_idx + 1, para_end_line + 2,
                IF Len(strip(para)) < section.min_chunk_size THEN acc
                ELSE Append(acc,
                        [paragraph_index |-> para_idx,
                         content |-> _add_context(para, section.all_paragraphs, para_idx,
                                                  section.add_context, section.context_chars),
                         start_line |-> start_line,
                         end_line |-> para_end_line]))

\* paragraphs as re.split(r'\n\s*\n') leaves them: none holds an empty line
ParagraphTexts ==
    {<<>>, <<" ">>, <<"a">>, <<"b", "c">>, <<" ", "d", "e", "f", " ">>,
     <<"g", "\n", "h", "i">>}

ContextCalls ==
    [all_paragraphs : UNION {[1..n -> ParagraphTexts] : n \in 1..MaxParagraphs},
     add_context : BOOLEAN,
     context_chars : {0, 2, 200},
     min_chunk_size : {2}]

InitContext ==
    /\ context_call \in ContextCalls
    /\ context_out = NoContextChunks
    /\ IdleSearch /\ IdleChunk /\ IdleId /\ IdleDedup /\ IdleCharacter /\ IdleFormat /\ IdleEmbed /\ IdleRace /\ IdleIndex /\ IdleSession /\ IdleToc /\ IdleType

ChunkSectionParagraphs ==
    /\ ~context_out.done
    /\ context_out' = [done |-> TRUE,
                       chunks |-> section_paragraph_chunks(context_call, 0, 1, <<>>)]
    /\ UNCHANGED context_call
    /\ UNCHANGED <<searchVars, chunkVars, idVars, dedupVars, characterVars, formatVars, embedVars, raceVars, indexVars, sessionVars, tocVars, typeVars>>

NextContext == ChunkSectionParagraphs

SpecContext == InitContext /\ [][NextContext]_vars

\* the last m characters of s
Suffix(s, m) == SubSeq(s, Len(s) - m + 1, Len(s))

\* what C23 says the chunk of paragraph para_idx (0-based) holds
ContextExpected(all_paragraphs, para_idx, n) ==
    LET core == strip(all_paragraphs[para_idx + 1])
        before ==
            IF para_idx > 0 /\ strip(all_paragraphs[para_idx]) # <<>>
            THEN LET prev == strip(all_paragraphs[para_idx])
                 IN  LeadingMarker \o Suffix(prev, Min(n, Len(prev))) \o <<"\n", "\n">>
            ELSE <<>>
        after ==
            IF para_idx + 2 <= Len(all_paragraphs) /\ strip(all_paragraphs[para_idx + 2]) # <<>>
            THEN LET next == strip(all_paragraphs[para_idx + 2])
                 IN  <<"\n", "\n">> \o TrailingMarker \o SubSeq(next, 1, Min(n, Len(next)))
                        \o <<".", ".", ".">>
            ELSE <<>>
    IN  before \o core \o after

\* C23: the text of a paragraph chunk is the trimmed paragraph, preceded by
\* the leading marker and the last min(N, length) characters of the trimmed
\* previous paragraph of the section when there is one and it is not empty,
\* followed by the trailing marker and the first min(N, length) characters of
\* the trimmed next one likewise; the neighbour is the adjacent paragraph even
\* if it was itself dropped as too short, and start_line and end_line span the
\* paragraph alone.
C23_ContextFromAdjacentSiblings ==
    context_out.done =>
        \A c \in 1..Len(context_out.chunks) :
            LET chunk == context_out.chunks[c]
            IN  /\ chunk.content = ContextExpected(context_call.all_paragraphs,
                                                   chunk.paragraph_index,
                                                   context_call.context_chars)
                /\ chunk.end_line - chunk.start_line
                      = count_newlines(context_call.all_paragraphs[chunk.paragraph_index + 1])

\* the part of C23 that _add_context meets: context switched on, N at least 1
ContextFromAdjacentSiblingsPositiveN ==
    (context_call.add_context /\ context_call.context_chars > 0)
        => C23_ContextFromAdjacentSiblings

Level2Lines == Ordered({i \in 1..Len(content) : IsLevel2Header(content[i])})

\* C24: in the flat two-level mode every line that begins with "## " starts a
\* section and yields exactly one chunk, which holds the lines from that
\* header up to the line before the next such header or the end of the
\* document (deeper headers stay inline); lines before the first belong to no
\* chunk, and chunk_index counts the chunks 0, 1, 2, ...
C24_OneChunkPerLevel2Header ==
    segmenter = "story_chunk_by_section" =>
        /\ Len(chunks) = Len(Level2Lines)
        /\ \A c \in 1..Len(chunks) :
              /\ c <= Len(Level2Lines)
              /\ chunks[c].start_line = Level2Lines[c]
              /\ chunks[c].end_line =
                    (IF c < Len(Level2Lines) THEN Level2Lines[c + 1] - 1 ELSE Len(content))
              /\ chunks[c].core_len
                    = StripLen(SubSeq(content, chunks[c].start_line, chunks[c].end_line))
              /\ chunks[c].chunk_index = c - 1

\* the part of C24 the code meets: every "## " line has a title after it
OneChunkPerTitledLevel2Header ==
    (\A i \in 1..Len(content) : IsLevel2Header(content[i]) => content[i].title # <<>>)
        => C24_OneChunkPerLevel2Header

----------------------------------------------------------------------------
\* Further claims about the retrieval pipeline

\* the candidates that got a score: zip() stops at the shorter list
ScoredCandidates == Min(Len(call.trace.initial_results), Len(call.trace.rerank.scores))

\* C25: under the default configuration, where nobody configured a score
\* threshold, the threshold step of a reranked search removes no candidate:
\* the result is the top_k best-scored candidates whatever their scores.
C25_DefaultThresholdRemovesNothing ==
    (SearchDone("base") /\ config = DefaultConfig /\ outcome.kind = "returned"
        /\ call.trace.rerank.called) =>
        Len(outcome.results) = Min(call.top_k, ScoredCandidates)

----------------------------------------------------------------------------
\* generate_index.py: generate_index_content
\*
\* A string is a sequence of tokens; a token is a piece of text that the
\* function never cuts: a word, one space, the newline, the marker
\* "PLACEHOLDER:", a file path (file k stands for 'settings/k.md', so that
\* sorted() is the numeric order) or a line range "a-b".

MaxIndexedFiles == 2
MaxSections == 2

Tok(s) == [s |-> s, a |-> 0, b |-> 0]
PathTok(file_path) == [s |-> "path", a |-> file_path, b |-> 0]
RangeTok(a, b) == [s |-> "range", a |-> a, b |-> b]

Space == Tok(" ")
Newline == Tok("\n")
Arrow == <<Space, Tok("->"), Space>>
PlaceholderMark == Tok("PLACEHOLDER:")

\* the first item appended: one string with two newlines in it
StructureNote ==
    <<Tok("#structure"), Newline, Tok("toc: file -> lines of this text"), Newline,
      Tok("files: section -> lines of the file")>>
TocHeading == <<Tok("#"), Space, Tok("TOC")>>
\* f"- {file_path} -> PLACEHOLDER:{file_path}"
Placeholder(file_path) ==
    <<Tok("-"), Space, PathTok(file_path)>> \o Arrow \o <<PlaceholderMark, PathTok(file_path)>>
\* "- f -> [a-b]"
TocEntry(file_path, a, b) ==
    <<Tok("-"), Space, PathTok(file_path)>> \o Arrow \o <<RangeTok(a, b)>>
\* f"# {file_path}"
FileHeading(file_path) == <<Tok("#"), Space, PathTok(file_path)>>
\* f"- {section_title} ([{start_line}-{end_line}])"
SectionEntry(section) ==
    <<Tok("-"), Space>> \o section.title
        \o <<Space, Tok("("), RangeTok(section.start_line, section.end_line), Tok(")")>>

RECURSIVE sorted(_)
sorted(keys) ==
    IF keys = {} THEN <<>>
    ELSE LET first == CHOOSE k \in keys : \A other \in keys : k <= other
         IN <<first>> \o sorted(keys \ {first})

\* "PLACEHOLDER:" in line
HasPlaceholder(line) == \E i \in 1..Len(line) : line[i] = PlaceholderMark

\* line.split("PLACEHOLDER:")[1]: what stands between the first marker and the
\* next one, or the end
after_placeholder(line) ==
    LET marks == {i \in 1..Len(line) : line[i] = PlaceholderMark}
        first == CHOOSE i \in marks : \A j \in marks : i <= j
        rest == marks \ {first}
        stop == IF rest = {} THEN Len(line) + 1
                ELSE CHOOSE i \in rest : \A j \in rest : i <= j
    IN  SubSeq(line, first + 1, stop - 1)

\* str.strip() of a token string
strip_tokens(s) ==
    LET solid == {i \in 1..Len(s) : s[i] # Space /\ s[i] # Newline}
    IN  IF solid = {} THEN <<>>
        ELSE SubSeq(s, CHOOSE i \in solid : \A j \in solid : i <= j,
                       CHOOSE i \in solid : \A j \in solid : i >= j)

\* line.replace(old, new): every occurrence, left to right
RECURSIVE replace(_, _, _)
replace(line, old, new) ==
    IF Len(line) < Len(old) THEN line
    ELSE IF SubSeq(line, 1, Len(old)) = old
    THEN new \o replace(SubSeq(line, Len(old) + 1, Len(line)), old, new)
    ELSE <<Head(line)>> \o replace(Tail(line), old, new)

\* the TOC part: one placeholder item per file
toc_items(files) == [i \in 1..Len(files) |-> Placeholder(files[i])]

\* the items of one file: heading, empty line, one item per section, empty line
file_items(file_path, sections) ==
    <<FileHeading(file_path), <<>>>>
        \o [i \in 1..Len(sections) |-> SectionEntry(sections[i])]
        \o <<<<>>>>

\* the loop over the files: appends each file's items and records
\* (start_pos, end_pos) counted in items of content_lines
RECURSIVE file_sections(_, _, _, _)
file_sections(files, data, content_lines, file_positions) ==
    IF files = <<>> THEN [content_lines |-> content_lines, file_positions |-> file_positions]
    ELSE LET file_path == Head(files)
             start_pos == Len(content_lines) + 1
             appended == content_lines \o file_items(file_path, data[file_path])
             end_pos == Len(appended)
         IN file_sections(Tail(files), data, appended,
                [f \in DOMAIN file_positions \cup {file_path} |->
                    IF f = file_path THEN <<start_pos, end_pos>> ELSE file_positions[f]])

\* second step, for every item of content_lines: an item that holds the
\* marker gets the recorded range when what follows the marker, stripped, is a
\* recorded path, and loses " -> PLACEHOLDER:..." (where that stands) otherwise
replace_placeholder(line, file_positions) ==
    IF HasPlaceholder(line)
    THEN LET file_path == strip_tokens(after_placeholder(line))
         IN  IF \E k \in DOMAIN file_positions : file_path = <<PathTok(k)>>
             THEN replace(line, <<PlaceholderMark>> \o file_path,
                          <<RangeTok(file_positions[file_path[1].a][1],
                                     file_positions[file_path[1].a][2])>>)
             ELSE replace(line, Arrow \o <<PlaceholderMark>> \o file_path, <<>>)
    ELSE line

\* while final_lines and final_lines[-1] == "": final_lines.pop()
RECURSIVE pop_trailing_blank(_)
pop_trailing_blank(final_lines) ==
    IF final_lines # <<>> /\ final_lines[Len(final_lines)] = <<>>
    THEN pop_trailing_blank(SubSeq(final_lines, 1, Len(final_lines) - 1))
    ELSE final_lines

\* "\n".join(final_lines)
RECURSIVE join_lines(_)
join_lines(final_lines) ==
    IF final_lines = <<>> THEN <<>>
    ELSE IF Len(final_lines) = 1 THEN final_lines[1]
    ELSE final_lines[1] \o <<Newline>> \o join_lines(Tail(final_lines))

generate_index_content(data) ==
    LET files == sorted(DOMAIN data)
        head_items == <<StructureNote, <<>>, TocHeading, <<>>>>
                          \o toc_items(files) \o <<<<>>>>
        built == file_sections(files, data, head_items, NoSettingsData)
        final_lines == [i \in 1..Len(built.content_lines) |->
                           replace_placeholder(built.content_lines[i], built.file_positions)]
    IN join_lines(pop_trailing_blank(final_lines))

\* the lines of a text: text.split('\n')
RECURSIVE TextLines(_, _, _)
TextLines(text, line, lines) ==
    IF text = <<>> THEN Append(lines, line)
    ELSE IF Head(text) = Newline THEN TextLines(Tail(text), <<>>, Append(lines, line))
    ELSE TextLines(Tail(text), Append(line, Head(text)), lines)

IndexedFiles == 1..MaxIndexedFiles
\* section titles: a plain one, and two that hold the marker themselves
PlainTitle == <<Tok("s")>>
ArrowMarkerTitle == <<Tok("x")>> \o Arrow \o <<PlaceholderMark, PathTok(1)>>
MarkerTitle == <<PlaceholderMark, Tok("y")>>
Sections ==
    {[title |-> PlainTitle, start_line |-> 1, end_line |-> 5],
     [title |-> ArrowMarkerTitle, start_line |-> 3, end_line |-> 5],
     [title |-> MarkerTitle, start_line |-> 6, end_line |-> 9]}
SectionLists == UNION {[1..n -> Sections] : n \in 1..MaxSections}
\* collect_setting_files keeps the files that have at least one section
SettingsData == UNION {[files -> SectionLists] : files \in SUBSET IndexedFiles}

InitToc ==
    /\ settings_data \in SettingsData
    /\ index_content = NoIndexContent
    /\ IdleSearch /\ IdleChunk /\ IdleId /\ IdleDedup /\ IdleCharacter /\ IdleFormat /\ IdleEmbed /\ IdleRace /\ IdleIndex /\ IdleSession /\ IdleContext /\ IdleType

GenerateIndexContent ==
    /\ ~index_content.done
    /\ index_content' =
          [done |-> TRUE,
           text |-> TextLines(generate_index_content(settings_data), <<>>, <<>>)]
    /\ UNCHANGED settings_data
    /\ UNCHANGED <<searchVars, chunkVars, idVars, dedupVars, characterVars, formatVars, embedVars, raceVars, indexVars, sessionVars, contextVars, typeVars>>

NextToc == GenerateIndexContent

SpecToc == InitToc /\ [][NextToc]_vars

IsFileHeading(line) ==
    Len(line) = 3 /\ line[3].s = "path" /\ line = FileHeading(line[3].a)

IsTocEntry(line) ==
    /\ Len(line) = 7 /\ line[3].s = "path" /\ line[7].s = "range"
    /\ line = TocEntry(line[3].a, line[7].a, line[7].b)

\* the line of the text where the file's '# file' heading stands (0: nowhere)
HeadingLine(text, file_path) ==
    IF \E i \in 1..Len(text) : text[i] = FileHeading(file_path)
    THEN CHOOSE i \in 1..Len(text) : text[i] = FileHeading(file_path)
    ELSE 0

\* the last line of the block that begins at line h: the line before the next
\* file heading, or the last line of the text
BlockEnd(text, h) ==
    CHOOSE j \in h..Len(text) :
        /\ j = Len(text) \/ IsFileHeading(text[j + 1])
        /\ \A k \in (h + 1)..j : ~IsFileHeading(text[k])

NoPlaceholderLeft ==
    index_content.done =>
        \A i \in 1..Len(index_content.text) : ~HasPlaceholder(index_content.text[i])

\* no section title given to the call holds the marker
TitlesFreeOfMarker ==
    \A f \in DOMAIN settings_data : \A n \in 1..Len(settings_data[f]) :
        ~HasPlaceholder(settings_data[f][n].title)

\* C26: every TOC entry 'file -> [a-b]' of the returned text gives 1-based
\* line numbers of that text: line a is the file's '# file' heading, line b
\* exists and is the last line of the file's block (with or without the empty
\* line that closes it), and no 'PLACEHOLDER:' token is left.
C26_TocLineNumbersOfReturnedText ==
    index_content.done =>
        LET text == index_content.text
        IN /\ NoPlaceholderLeft
           /\ \A i \in 1..Len(text) :
                IsTocEntry(text[i]) =>
                    /\ text[i][7].a \in 1..Len(text)
                    /\ text[text[i][7].a] = FileHeading(text[i][3].a)
                    /\ text[i][7].b \in 1..Len(text)
                    /\ \/ text[i][7].b = BlockEnd(text, text[i][7].a)
                       \/ /\ text[i][7].b + 1 = BlockEnd(text, text[i][7].a)
                          /\ text[text[i][7].b + 1] = <<>>

\* What the entries do give: positions counted in items of content_lines,
\* two short of the text's line numbers because the first item is three
\* lines of text; the closing empty line of the last file is not in the text.
\* Every file has its entry, and no marker is left when no title held one.
TocRangesCountItems ==
    index_content.done =>
        LET text == index_content.text
        IN /\ TitlesFreeOfMarker => NoPlaceholderLeft
           /\ \A f \in DOMAIN settings_data :
                \E i \in 1..Len(text) : IsTocEntry(text[i]) /\ text[i][3].a = f
           /\ \A i \in 1..Len(text) :
                IsTocEntry(text[i]) =>
                    /\ text[i][7].a + 2 = HeadingLine(text, text[i][3].a)
                    /\ \/ /\ text[i][7].b + 2 = BlockEnd(text, text[i][7].a + 2)
                          /\ text[text[i][7].b + 2] = <<>>
                       \/ /\ text[i][7].b + 2 = Len(text) + 1
                          /\ BlockEnd(text, text[i][7].a + 2) = Len(text)

----------------------------------------------------------------------------
\* Further claims about index_documents

\* C27: index_documents(force_reindex=False) on a collection that holds at
\* least one record adds, changes and removes nothing, whatever the documents
\* now contain: the collection after the call is the collection before it and
\* the call made no embedding call.
C27_UnforcedIndexLeavesCollection ==
    (IndexDone /\ ~index_call.force_reindex /\ index_run.before # {}) =>
        /\ collection = index_run.before
        /\ index_run.embedding_calls = 0
        /\ index_run.outcome = "returned"

\* an unforced call that ended on a non-empty collection while the tree has a
\* readable file with chunks that the collection does not hold
C27_Witness ==
    /\ IndexDone
    /\ ~index_call.force_reindex
    /\ index_run.before # {}
    /\ index_run.reported = "exists"
    /\ \E d \in 1..Len(index_call.documents) :
          /\ index_call.documents[d].fault = "none"
          /\ DocumentChunk(d, 0) \in {CurrentChunks[n] : n \in 1..Len(CurrentChunks)}
          /\ DocumentChunk(d, 0) \notin collection

----------------------------------------------------------------------------
\* Further claims about search_with_rerank

\* every candidate handed to the reranker got a score at or above the threshold
AllCandidatesPass ==
    /\ Len(call.trace.rerank.scores) >= Len(call.trace.initial_results)
    /\ \A p \in 1..Len(call.trace.initial_results) :
          call.trace.rerank.scores[p] >= config.score_threshold

\* C28: with reranking enabled the number of candidates requested from the
\* store is never smaller than top_k, for every top_k and every configured
\* models.reranker.max_results; so when the store holds at least top_k matching
\* chunks and they pass the threshold, the search returns exactly top_k results.
C28_RequestsAtLeastTopK ==
    (SearchDone("base") /\ config.enable_rerank /\ call.trace.store_called) =>
        /\ call.trace.initial_top_k >= call.top_k
        /\ (/\ outcome.kind = "returned"
            /\ call.trace.rerank.called
            /\ call.env.n_matches >= call.top_k
            /\ AllCandidatesPass) => Len(outcome.results) = call.top_k

\* The request is at least top_k whenever max_results itself is at least top_k.
RequestsAtLeastTopKWithinMaxResults ==
    (SearchDone("base") /\ config.enable_rerank /\ call.trace.store_called
        /\ config.max_results >= call.top_k) =>
        /\ call.trace.initial_top_k >= call.top_k
        /\ (/\ outcome.kind = "returned"
            /\ call.trace.rerank.called
            /\ call.env.n_matches >= call.top_k
            /\ AllCandidatesPass) => Len(outcome.results) = call.top_k

----------------------------------------------------------------------------
\* Further claims about the chunk ids

\* C29: the key string '{file_path}_{index}_{title}' is different for every two
\* different (file_path, index, title) triples, also when paths or titles hold
\* '_' and digits: two different chunks never get the same chunk id.
C29_ChunkKeyInjective ==
    ids.impl # "none" =>
        (id_args[1] # id_args[2] => ids.first # ids.second)

\* The ids do differ when the two paths and the two titles are free of '_'.
ChunkKeyInjectiveWithoutUnderscore ==
    (/\ ids.impl # "none"
     /\ \A n \in 1..2 :
          /\ \A p \in 1..Len(id_args[n].file_path) : id_args[n].file_path[p] # "_"
          /\ \A p \in 1..Len(id_args[n].title) : id_args[n].title[p] # "_") =>
        (id_args[1] # id_args[2] => ids.first # ids.second)

----------------------------------------------------------------------------
\* _get_file_type of BaseRAGSystem and of StoryRAGSystem
\*
\* A path or pattern is a sequence of tokens: "S" is the directory name of the
\* settings, "X" "P" the two halves of the name of the subplot directory (the
\* story class looks for the first half only), "Vol" and a digit a volume
\* directory, "/" the separator, "*" and ".md" as in the patterns, "c" any
\* other name.  The types are written "setting", "chapter", "subplot", "other".

MaxPathLen == 4

PathTokens == {"S", "X", "P", "/", "Vol", "1", "*", ".md", "c"}

Paths == UNION {[1..n -> PathTokens] : n \in 0..MaxPathLen}

\* part in path_str
Contains(text, part) ==
    \E i \in 0..(Len(text) - Len(part)) :
        \A j \in 1..Len(part) : text[i + j] = part[j]

\* pattern.split('/')
RECURSIVE split_slash(_, _, _)
split_slash(pattern, part, parts) ==
    IF pattern = <<>> THEN Append(parts, part)
    ELSE IF Head(pattern) = "/" THEN split_slash(Tail(pattern), <<>>, Append(parts, part))
    ELSE split_slash(Tail(pattern), Append(part, Head(pattern)), parts)

\* document_processing.doc_types of the default configuration, in dict order
DefaultDocTypes ==
    <<[doc_type |-> "setting", path_patterns |-> << <<"S", "/", "*", ".md">> >>],
      [doc_type |-> "chapter", path_patterns |-> << <<"Vol", "*", "/", "*", ".md">> >>],
      [doc_type |-> "subplot", path_patterns |-> << <<"S", "/", "X", "P", "/", "*", ".md">> >>]>>

\* any(part in path_str for part in pattern.split('/'))
pattern_matches(pattern, text) ==
    LET parts == split_slash(pattern, <<>>, <<>>)
    IN \E n \in 1..Len(parts) : Contains(text, parts[n])

RECURSIVE first_matching_type(_, _)
first_matching_type(doc_types, text) ==
    IF doc_types = <<>> THEN "other"
    ELSE IF \E n \in 1..Len(Head(doc_types).path_patterns) :
                pattern_matches(Head(doc_types).path_patterns[n], text)
    THEN Head(doc_types).doc_type
    ELSE first_matching_type(Tail(doc_types), text)

_get_file_type(text) == first_matching_type(DefaultDocTypes, text)

\* ["Vol1", "Vol2", "Vol3", "Vol4", "Vol5"]
Volumes == {<<"Vol", digit>> : digit \in {"1", "2", "3", "4", "5"}}

story_get_file_type(text) ==
    IF Contains(text, <<"S">>)
    THEN IF Contains(text, <<"X">>) THEN "subplot" ELSE "setting"
    ELSE IF \E vol \in Volumes : Contains(text, vol)
    THEN "chapter"
    ELSE "other"

InitType ==
    /\ path_str \in Paths
    /\ file_types = NoFileTypes
    /\ IdleSearch /\ IdleChunk /\ IdleId /\ IdleDedup /\ IdleCharacter /\ IdleFormat /\ IdleEmbed /\ IdleRace /\ IdleIndex /\ IdleSession /\ IdleContext /\ IdleToc

GetFileType ==
    /\ file_types.base = "pending"
    /\ file_types' = [file_types EXCEPT !.base = _get_file_type(path_str)]
    /\ UNCHANGED path_str
    /\ UNCHANGED <<searchVars, chunkVars, idVars, dedupVars, characterVars, formatVars, embedVars, raceVars, indexVars, sessionVars, contextVars, tocVars>>

StoryGetFileType ==
    /\ file_types.story = "pending"
    /\ file_types' = [file_types EXCEPT !.story = story_get_file_type(path_str)]
    /\ UNCHANGED path_str
    /\ UNCHANGED <<searchVars, chunkVars, idVars, dedupVars, characterVars, formatVars, embedVars, raceVars, indexVars, sessionVars, contextVars, tocVars>>

NextType == GetFileType \/ StoryGetFileType

SpecType == InitType /\ [][NextType]_vars

BothTyped == file_types.base # "pending" /\ file_types.story # "pending"

\* the path lies under the directory: the directory's name, then the separator
Under(text, directory) == Contains(text, directory \o <<"/">>)

\* C30: with the default document types both classes give the same type for
\* every path: "subplot" under the subplot directory of the settings,
\* "setting" elsewhere under the settings, "chapter" under a volume directory,
\* "other" for every other path.
C30_FileTypesAgree ==
    BothTyped =>
        /\ file_types.base = file_types.story
        /\ Under(path_str, <<"S", "/", "X", "P">>) => file_types.base = "subplot"
        /\ (Under(path_str, <<"S">>) /\ ~Contains(path_str, <<"X">>))
              => file_types.base = "setting"
        /\ (Under(path_str, <<"Vol", "1">>) /\ ~Contains(path_str, <<"S">>))
              => file_types.base = "chapter"

\* The two classes agree on the paths that hold the settings' name and not the
\* subplot directory's: both say "setting".
FileTypesAgreeOnPlainSettings ==
    (BothTyped /\ Contains(path_str, <<"S">>) /\ ~Contains(path_str, <<"X">>)) =>
        file_types.base = "setting" /\ file_types.story = "setting"

====
